---- MODULE Spec2Model ----
(***************************************************************************)
(* API surface normalization and tool generation: the merge stage, the     *)
(* format parsers' parameter extraction, tool-name and tool-signature      *)
(* generation, the discovery run over its sources and the page crawler.    *)
(* Each part has its own specification (SpecMerge, SpecName, ...); the     *)
(* variables of the other parts stay idle in it.                           *)
(***************************************************************************)
EXTENDS Integers, Sequences, FiniteSets, TLC

VARIABLES
    \* ---- merge stage
    endpoints,      \* the concatenated input list handed to a merge
    unique,         \* the merge's output list
    mergeOp,        \* which merge produced `unique`
    again,          \* the merge applied to its own output
    repeated,       \* the input list with one record repeated
    repeatedFrom,   \* <<i, j>>: the record at i was copied to position j
    uniqueRep,      \* the merge applied to `repeated`
    mpc             \* position of the merge run

mergeVars == <<endpoints, unique, mergeOp, again, repeated, repeatedFrom, uniqueRep, mpc>>

VARIABLES
    \* ---- tool naming
    namePath,       \* the endpoint's url, a sequence of characters
    nameMethod,     \* the endpoint's method
    toolName,       \* MCPServer._generate_tool_name's result, or NoName
    fastmcpName     \* the function name _generate_fastmcp_tool emits, or NoName

nameVars == <<namePath, nameMethod, toolName, fastmcpName>>

VARIABLES
    \* ---- format parsers
    opPath,         \* the operation's path as written in the document
    opDeclared,     \* its declared parameter list
    opBody,         \* the property names of its JSON request body
    opHeaders,      \* the names of its declared request headers
    parsedBy,       \* the parser that produced the record, or "none"
    recordUrl,      \* the record's url
    recordParams    \* the record's parameters, in insertion order

parseVars == <<opPath, opDeclared, opBody, opHeaders, parsedBy, recordUrl, recordParams>>

VARIABLES
    \* ---- tool generation
    genUrl,         \* the endpoint's url
    genMethod,      \* the endpoint's method
    genParams,      \* the endpoint's parameters, in discovery order
    tool,           \* what _generate_fastmcp_tool produced for it, or NoTool
    callArgs,       \* a call of the generated tool: each parameter's value or None
    data,           \* the request body the called tool built
    request,        \* what make_request sent for it
    \* ---- generation of a batch
    batch,          \* api_discovery.endpoints
    batchPos,       \* the loop's position in it
    endpointTools,  \* the tools generated so far
    batchResult,    \* the tools returned to the caller
    bpc             \* "loop", "done" (returned) or "raised"

genVars == <<genUrl, genMethod, genParams, tool, callArgs, data, request>>
batchVars == <<batch, batchPos, endpointTools, batchResult, bpc>>

VARIABLES
    \* ---- discovery run of discover_apis
    openapiSpec,    \* the operations of the OpenAPI document found, <<>> if none
    forms,          \* analysis.forms
    commonOk,       \* the common api paths that answer 200
    jsEndpoints,    \* the records extracted from the JavaScript files
    discovered,     \* the local list `endpoints`
    discovery,      \* the endpoints of the APIDiscovery returned
    dpc             \* position of the run

VARIABLES
    \* ---- website crawl: two requests on the one WebsiteAnalyzer of main.py
    visited_urls,   \* WebsiteAnalyzer.visited_urls
    crawlMain,      \* per run: the url handed to analyze
    crawlLinks,     \* per run: the links of its main page
    pages,          \* per run: the local list `pages`, as urls
    crawlIdx,       \* per run: position in urls_to_visit of the page awaited
    cpc             \* per run: position of the run

discoverVars == <<openapiSpec, forms, commonOk, jsEndpoints, discovered, discovery, dpc>>
crawlVars == <<visited_urls, crawlMain, crawlLinks, pages, crawlIdx, cpc>>

VARIABLES
    \* ---- format detection
    jsonData,       \* the parsed JSON value handed to _detect_json_format
    detected        \* the format returned, "raised", or "none" before the call

detectVars == <<jsonData, detected>>

VARIABLES
    \* ---- source inference for one handler parameter
    handlerParam,   \* the parameter as the handler declares and uses it
    paramSource     \* the source inferred for it, "none" before the call

inferVars == <<handlerParam, paramSource>>

VARIABLES
    \* ---- framework detection
    occurrences,    \* the file's text, as the number of occurrences of each indicator
    framework       \* the framework detected, "none" before the call

frameworkVars == <<occurrences, framework>>

VARIABLES
    \* ---- specification files of a repository analysis
    specFiles,      \* the specification files found, in the order of the walk
    specPos,        \* the walk's position in them
    apiEndpoints,   \* analysis['api_endpoints']
    spc             \* "walk", "done" or "raised"

specVars == <<specFiles, specPos, apiEndpoints, spc>>

VARIABLES
    \* ---- endpoints from documentation text
    docMatches,       \* what the patterns match in the text: (method, path) pairs
    unique_endpoints, \* the set of accepted pairs still to be turned into records
    docEndpoints,     \* the records appended to analysis['api_endpoints']
    docpc             \* "start", "emit", "done", or "failed" after the except clause

docVars == <<docMatches, unique_endpoints, docEndpoints, docpc>>

VARIABLES
    \* ---- the server's tool list: MCPServer
    srvEmitted,       \* the endpoint records as their extractors emitted them
    srvEndpoints,     \* api_discovery.endpoints: records whose dicts are objects of srvHeap
    srvHeap,          \* the dict objects: reference -> the dict's entries
    mcpTools,         \* the list _generate_endpoint_tools returns
    tool_schemas,     \* the 'tools' dict of get_tool_schema, in insertion order
    srvpc             \* "emitted", "tools" or "schema"

toolsVars == <<srvEmitted, srvEndpoints, srvHeap, mcpTools, tool_schemas, srvpc>>

VARIABLES
    \* ---- a custom JSON document: JSONAnalyzer.analyze_json
    customDoc,        \* the parsed document: its list key and the items under it
    customFormat,     \* what _detect_json_format answered, "none" before
    customRecords     \* the endpoints of the returned APIDiscovery

customVars == <<customDoc, customFormat, customRecords>>

VARIABLES
    \* ---- the session store: Database
    sessions,         \* self.sessions, the sessions held in memory
    sessionsFile      \* the sessions file: whether it exists, and the JSON object in it

sessionVars == <<sessions, sessionsFile>>

VARIABLES
    \* ---- the HTTP handlers of main.py that work on a session
    httpBody,         \* the request body: its session_id, or that it has none
    httpKnown,        \* the session ids the database holds, each with its session
    httpGenerationFails, \* whether the generation called by the handler raises
    httpRoute,        \* the route answered, "none" before
    httpStatus        \* the status code of the response, 0 before

httpVars == <<httpBody, httpKnown, httpGenerationFails, httpRoute, httpStatus>>

VARIABLES
    \* ---- a Markdown document: MarkdownAPIParser.parse_endpoints
    mdLines,          \* text.split('\n'), each line a sequence of characters
    mdPos,            \* the number of lines the loop has handled
    current_endpoint, \* the local current_endpoint, NoEndpoint for None
    current_parameters, \* the local current_parameters
    mdEndpoints,      \* the local list `endpoints`
    mdpc              \* "loop", "last" (after the loop) or "done" (returned)

markdownVars == <<mdLines, mdPos, current_endpoint, current_parameters, mdEndpoints, mdpc>>

VARIABLES
    \* ---- a local repository analysis: GitHubAnalyzer._analyze_repository_locally
    os_name,          \* os.name: "nt" on Windows, "posix" elsewhere
    temp_dir,         \* "None", "exists" once mkdtemp made it, "removed" once rmtree did
    exitPath,         \* how the try block was left, "none" before
    localResult,      \* what the call returns: "none" before, "empty" for {}, "analysis"
    localRaised,      \* whether an exception reached the caller
    removals,         \* the outcome of each removal attempt of _cleanup_temp_directory
    sleeps,           \* the delay of each asyncio.sleep of _cleanup_temp_directory
    retry_delay,      \* the local retry_delay
    lpc               \* position of the call

localVars == <<os_name, temp_dir, exitPath, localResult, localRaised, removals, sleeps, retry_delay, lpc>>

VARIABLES
    \* ---- Database.cleanup_old_sessions
    today,              \* datetime.today() at the call: month, day, hour
    days,             \* the argument `days`
    heldSessions,     \* self.sessions at the call: session id -> created_at
    keptSessions,     \* self.sessions after the call
    savedSessions,    \* the session ids of the last _save_sessions
    cleanupResult     \* "none" before the call, "done", or "ValueError"

cleanupVars == <<today, days, heldSessions, keptSessions, savedSessions, cleanupResult>>

vars == <<mergeVars, nameVars, parseVars, genVars, batchVars, discoverVars, crawlVars, detectVars, inferVars, frameworkVars, specVars, docVars, toolsVars, customVars, sessionVars, httpVars, markdownVars, localVars, cleanupVars>>

------------------------------------------------------------------------------
(* Generic helpers on sequences *)

Range(s) == {s[i] : i \in 1..Len(s)}

SeqsUpTo(S, n) == UNION {[1..k -> S] : k \in 0..n}

\* s with x inserted so that it becomes element number j (1 <= j <= Len(s)+1)
InsertAt(s, j, x) == SubSeq(s, 1, j - 1) \o <<x>> \o SubSeq(s, j, Len(s))

NoName == <<"<none>">>

------------------------------------------------------------------------------
(* The state of a part while another part's specification runs *)

MergeIdle ==
    /\ endpoints = <<>>
    /\ unique = <<>>
    /\ mergeOp = "none"
    /\ again = <<>>
    /\ repeated = <<>>
    /\ repeatedFrom = <<0, 0>>
    /\ uniqueRep = <<>>
    /\ mpc = "idle"

NameIdle ==
    /\ namePath = <<>>
    /\ nameMethod = "GET"
    /\ toolName = NoName
    /\ fastmcpName = NoName

NoTool == [status |-> "none"]

\* no call of the tool yet
NoData == [kind |-> "uncalled"]

GenIdle ==
    /\ genUrl = <<>>
    /\ genMethod = "GET"
    /\ genParams = <<>>
    /\ tool = NoTool
    /\ callArgs = <<>>
    /\ data = NoData
    /\ request = NoData

BatchIdle ==
    /\ batch = <<>>
    /\ batchPos = 0
    /\ endpointTools = <<>>
    /\ batchResult = <<>>
    /\ bpc = "idle"

Runs == {1, 2}

DiscoverIdle ==
    /\ openapiSpec = <<>>
    /\ forms = <<>>
    /\ commonOk = {}
    /\ jsEndpoints = <<>>
    /\ discovered = <<>>
    /\ discovery = <<>>
    /\ dpc = "idle"

CrawlIdle ==
    /\ visited_urls = {}
    /\ crawlMain = [r \in Runs |-> <<>>]
    /\ crawlLinks = [r \in Runs |-> <<>>]
    /\ pages = [r \in Runs |-> <<>>]
    /\ crawlIdx = [r \in Runs |-> 0]
    /\ cpc = [r \in Runs |-> "idle"]

DetectIdle ==
    /\ jsonData = [t |-> "null"]
    /\ detected = "none"

InferIdle ==
    /\ handlerParam = <<>>
    /\ paramSource = "none"

FrameworkIdle ==
    /\ occurrences = <<>>
    /\ framework = "none"

SpecFilesIdle ==
    /\ specFiles = <<>>
    /\ specPos = 0
    /\ apiEndpoints = <<>>
    /\ spc = "idle"

DocsIdle ==
    /\ docMatches = <<>>
    /\ unique_endpoints = {}
    /\ docEndpoints = <<>>
    /\ docpc = "idle"

ToolsIdle ==
    /\ srvEmitted = <<>>
    /\ srvEndpoints = <<>>
    /\ srvHeap = <<>>
    /\ mcpTools = <<>>
    /\ tool_schemas = <<>>
    /\ srvpc = "idle"

CustomIdle ==
    /\ customDoc = <<>>
    /\ customFormat = "idle"
    /\ customRecords = <<>>

SessionsIdle ==
    /\ sessions = {}
    /\ sessionsFile = [exists |-> FALSE, data |-> {}, idle |-> TRUE]

HttpIdle ==
    /\ httpBody = <<>>
    /\ httpKnown = {}
    /\ httpGenerationFails = FALSE
    /\ httpRoute = "idle"
    /\ httpStatus = 0

NoEndpoint == [none |-> TRUE]

MarkdownIdle ==
    /\ mdLines = <<>>
    /\ mdPos = 0
    /\ current_endpoint = NoEndpoint
    /\ current_parameters = <<>>
    /\ mdEndpoints = <<>>
    /\ mdpc = "idle"

LocalIdle ==
    /\ os_name = "posix"
    /\ temp_dir = "None"
    /\ exitPath = "none"
    /\ localResult = "none"
    /\ localRaised = FALSE
    /\ removals = <<>>
    /\ sleeps = <<>>
    /\ retry_delay = 0
    /\ lpc = "idle"

CleanupIdle ==
    /\ today = [month |-> 1, day |-> 1, hour |-> 0]
    /\ days = 0
    /\ heldSessions = <<>>
    /\ keptSessions = <<>>
    /\ savedSessions = {}
    /\ cleanupResult = "idle"

ParseIdle ==
    /\ opPath = <<>>
    /\ opDeclared = <<>>
    /\ opBody = <<>>
    /\ opHeaders = <<>>
    /\ parsedBy = "none"
    /\ recordUrl = <<>>
    /\ recordParams = <<>>

------------------------------------------------------------------------------
(* models.py *)

HTTPMethod == {"GET", "POST", "PUT", "DELETE", "PATCH"}


------------------------------------------------------------------------------
(* Characters and strings as sequences of characters *)

LowerLetters ==
    {"a", "b", "c", "d", "e", "g", "h", "i", "l", "n", "o", "p", "s", "t", "u", "x"}
UpperLetters == {"A"}
Letters == LowerLetters \cup UpperLetters
Digits == {"1"}

IsAlnum(c) == c \in Letters \cup Digits

\* str.lower() on one character
LowerChar(c) == IF c = "A" THEN "a" ELSE c

Lower(s) == [i \in 1..Len(s) |-> LowerChar(s[i])]

\* re.sub(r'_+', '_', s)
RECURSIVE CollapseUnderscores(_)
CollapseUnderscores(s) ==
    IF Len(s) <= 1 THEN s
    ELSE IF s[1] = "_" /\ s[2] = "_" THEN CollapseUnderscores(Tail(s))
         ELSE <<s[1]>> \o CollapseUnderscores(Tail(s))

\* s.rstrip('_')
RECURSIVE RStripUnderscores(_)
RStripUnderscores(s) ==
    IF s # <<>> /\ s[Len(s)] = "_" THEN RStripUnderscores(SubSeq(s, 1, Len(s) - 1)) ELSE s

\* s.lstrip('_')
RECURSIVE LStripUnderscores(_)
LStripUnderscores(s) ==
    IF s # <<>> /\ s[1] = "_" THEN LStripUnderscores(Tail(s)) ELSE s

\* s.split('/') with the empty parts removed
RECURSIVE SplitNonEmpty(_, _, _)
SplitNonEmpty(s, i, cur) ==
    IF i > Len(s) THEN (IF cur = <<>> THEN <<>> ELSE <<cur>>)
    ELSE IF s[i] = "/"
         THEN (IF cur = <<>> THEN <<>> ELSE <<cur>>) \o SplitNonEmpty(s, i + 1, <<>>)
         ELSE SplitNonEmpty(s, i + 1, Append(cur, s[i]))

\* endpoint.method.lower()
MethodLower(m) ==
    CASE m = "GET"    -> <<"g", "e", "t">>
      [] m = "POST"   -> <<"p", "o", "s", "t">>
      [] m = "PUT"    -> <<"p", "u", "t">>
      [] m = "DELETE" -> <<"d", "e", "l", "e", "t", "e">>
      [] m = "PATCH"  -> <<"p", "a", "t", "c", "h">>

------------------------------------------------------------------------------
(* Tool naming *)

MaxPathLen == 3

\* the characters a url of the model is made of: a separator, letters in both
\* cases, a digit, an underscore, braces, a replaced symbol and a space
PathChars == {"/", "a", "A", "1", "_", "{", "}", "@", " "}

\* re.sub(r'[^a-zA-Z0-9]', '_', s)
NonAlnumToUnderscore(s) == [i \in 1..Len(s) |-> IF IsAlnum(s[i]) THEN s[i] ELSE "_"]

\* MCPServer._generate_tool_name: the last meaningful part of the url
LastPart(url) ==
    LET url_parts == SplitNonEmpty(url, 1, <<>>)
    IN  IF url_parts = <<>> THEN <<"a", "p", "i">>
        ELSE IF Len(url_parts) = 1 THEN url_parts[1]
        ELSE url_parts[Len(url_parts)]

\* MCPServer._generate_tool_name
GenerateToolName(url, method) ==
    LET name == LStripUnderscores(RStripUnderscores(
                    CollapseUnderscores(NonAlnumToUnderscore(Lower(LastPart(url))))))
    IN  MethodLower(method) \o <<"_">> \o name

\* the characters _generate_fastmcp_tool replaces by '_' (the backquote is
\* written "backquote")
FastmcpReplaced ==
    {"/", "-", ":", ".", "?", "&", "=", "+", "@", "#", "$", "%", "^", "*", "(", ")",
     "[", "]", "|", "\\", ";", "\"", "'", "<", ">", ",", "!", "~", "backquote"}

\* the chain of str.replace calls on endpoint.url: braces are removed, the listed
\* symbols become '_', every other character is kept
RECURSIVE FastmcpReplaceChain(_)
FastmcpReplaceChain(s) ==
    IF s = <<>> THEN <<>>
    ELSE IF s[1] \in {"{", "}"} THEN FastmcpReplaceChain(Tail(s))
         ELSE IF s[1] \in FastmcpReplaced THEN <<"_">> \o FastmcpReplaceChain(Tail(s))
              ELSE <<s[1]>> \o FastmcpReplaceChain(Tail(s))

\* _generate_fastmcp_tool: the emitted function's name
FastmcpToolName(url, method) ==
    LET raw == MethodLower(method) \o <<"_">> \o FastmcpReplaceChain(url)
        prefixed == IF raw # <<>> /\ raw[1] \in Digits
                    THEN <<"e", "n", "d", "p", "o", "i", "n", "t", "_">> \o raw
                    ELSE raw
    IN  RStripUnderscores(CollapseUnderscores(prefixed))

NameInit ==
    /\ namePath \in SeqsUpTo(PathChars, MaxPathLen)
    /\ nameMethod \in HTTPMethod
    /\ toolName = NoName
    /\ fastmcpName = NoName
    /\ MergeIdle
    /\ ParseIdle
    /\ GenIdle
    /\ BatchIdle
    /\ DiscoverIdle
    /\ CrawlIdle
    /\ DetectIdle
    /\ InferIdle
    /\ FrameworkIdle
    /\ SpecFilesIdle
    /\ DocsIdle
    /\ ToolsIdle
    /\ CustomIdle
    /\ SessionsIdle
    /\ HttpIdle
    /\ MarkdownIdle
    /\ LocalIdle
    /\ CleanupIdle

\* MCPServer._generate_endpoint_tools names the endpoint's tool
NameTool ==
    /\ toolName = NoName
    /\ toolName' = GenerateToolName(namePath, nameMethod)
    /\ UNCHANGED <<namePath, nameMethod, fastmcpName, mergeVars, parseVars, genVars, batchVars,
                   discoverVars, crawlVars, detectVars, inferVars, frameworkVars, specVars,
                   docVars, toolsVars, customVars, sessionVars, httpVars, markdownVars,
                   localVars, cleanupVars>>

\* MCPServerGenerator._generate_fastmcp_tool names the endpoint's function
NameFastmcpTool ==
    /\ fastmcpName = NoName
    /\ fastmcpName' = FastmcpToolName(namePath, nameMethod)
    /\ UNCHANGED <<namePath, nameMethod, toolName, mergeVars, parseVars, genVars, batchVars,
                   discoverVars, crawlVars, detectVars, inferVars, frameworkVars, specVars,
                   docVars, toolsVars, customVars, sessionVars, httpVars, markdownVars,
                   localVars, cleanupVars>>

NameNext == NameTool \/ NameFastmcpTool

SpecName == NameInit /\ [][NameNext]_vars

\* ^[a-zA-Z_][a-zA-Z0-9_]*$, and non-empty
ValidIdentifier(s) ==
    /\ s # <<>>
    /\ s[1] \in Letters \cup {"_"}
    /\ \A i \in 1..Len(s) : IsAlnum(s[i]) \/ s[i] = "_"

\* C3: whatever the endpoint's path, each generated tool name is non-empty and
\* matches ^[a-zA-Z_][a-zA-Z0-9_]*$.
C3_ToolNamesValid ==
    /\ toolName # NoName => ValidIdentifier(toolName)
    /\ fastmcpName # NoName => ValidIdentifier(fastmcpName)

\* C3, for MCPServer._generate_tool_name alone
C3_ServerToolNameValid == toolName # NoName => ValidIdentifier(toolName)

\* the first '}' at or after position i, or 0
RECURSIVE NextCloseBraceFrom(_, _)
NextCloseBraceFrom(s, i) ==
    IF i > Len(s) THEN 0 ELSE IF s[i] = "}" THEN i ELSE NextCloseBraceFrom(s, i + 1)

\* s.strip(' ')
RECURSIVE StripSpaces(_)
StripSpaces(s) ==
    IF s # <<>> /\ s[1] = " " THEN StripSpaces(Tail(s))
    ELSE IF s # <<>> /\ s[Len(s)] = " " THEN StripSpaces(SubSeq(s, 1, Len(s) - 1))
    ELSE s

\* a replacement field's text is an expression: of the texts without an
\* operator, a name or a number
ParsesAsExpression(s) ==
    LET e == StripSpaces(s)
    IN  ValidIdentifier(e) \/ (e # <<>> /\ \A i \in 1..Len(e) : e[i] \in Digits)

\* the text from position i on is the rest of an f-string literal in double
\* quotes: doubled braces are literal, a single '{' opens a replacement field
\* that a '}' closes, a single '}' is an error, and so is a quote
RECURSIVE FStringParses(_, _)
FStringParses(s, i) ==
    IF i > Len(s) THEN TRUE
    ELSE IF s[i] = "\"" THEN FALSE
    ELSE IF s[i] \in {"{", "}"} /\ i < Len(s) /\ s[i + 1] = s[i] THEN FStringParses(s, i + 2)
    ELSE IF s[i] = "}" THEN FALSE
    ELSE IF s[i] = "{"
         THEN LET c == NextCloseBraceFrom(s, i + 1)
              IN  /\ c # 0
                  /\ ParsesAsExpression(SubSeq(s, i + 1, c - 1))
                  /\ FStringParses(s, c + 1)
    ELSE FStringParses(s, i + 1)

\* C22: the text generated for an endpoint parses as Python whatever
\* characters its path holds: def <name>(...) has an identifier for a name
\* and url = f"BASE_URL<path>" is a well-formed literal.
C22_GeneratedToolParses ==
    fastmcpName # NoName =>
        /\ ValidIdentifier(fastmcpName)
        /\ FStringParses(namePath, 1)

------------------------------------------------------------------------------
(* Format parsers: the parameters of one operation's record *)

MaxSegments == 2

Absent == "absent"

\* parameter names, as character sequences
NameA == <<"a">>
NameB == <<"b">>

\* the segments a path of the model is made of: a literal, two brace
\* placeholders and a colon placeholder
PathSegments == {<<"u">>, <<"{", "a", "}">>, <<"{", "b", "}">>, <<":", "a">>}

RECURSIVE JoinSegments(_)
JoinSegments(segs) ==
    IF segs = <<>> THEN <<>> ELSE <<"/">> \o Head(segs) \o JoinSegments(Tail(segs))

ParsePaths == {JoinSegments(segs) : segs \in SeqsUpTo(PathSegments, MaxSegments)}

\* one declared parameter: its name, its location ("in"), its "required" flag
\* and its type, each of the last three possibly absent
DeclaredParams ==
    [name : {NameA, NameB},
     in : {"query", "path", "header", "cookie", "formData", "body", Absent},
     required : {"true", "false", Absent},
     type : {"integer", Absent}]

\* a declared list holds no parameter or one
DeclaredLists == {<<>>} \cup {<<d>> : d \in DeclaredParams}

NameLists == {<<>>, <<NameA>>}

\* parameters[name] = value on a dict that keeps insertion order
DictSet(d, value) ==
    LET hit == {k \in 1..Len(d) : d[k].name = value.name}
    IN  IF hit = {} THEN Append(d, value)
        ELSE [k \in 1..Len(d) |-> IF k \in hit THEN value ELSE d[k]]

DictHas(d, name) == \E k \in 1..Len(d) : d[k].name = name

OrDefault(v, default) == IF v = Absent THEN default ELSE v

\* param.get("required", False)
RequiredOrFalse(d) == d.required = "true"

Param(name, type, source, required) ==
    [name |-> name, type |-> type, source |-> source, required |-> required]

\* the end of the first '}' at or after position i, or 0
RECURSIVE NextCloseBrace(_, _)
NextCloseBrace(s, i) ==
    IF i > Len(s) THEN 0 ELSE IF s[i] = "}" THEN i ELSE NextCloseBrace(s, i + 1)

\* re.findall(r'\{([^}]+)\}', path), scanning from position i
RECURSIVE BracePlaceholders(_, _)
BracePlaceholders(s, i) ==
    IF i > Len(s) THEN <<>>
    ELSE IF s[i] = "{"
         THEN LET c == NextCloseBrace(s, i + 1)
              IN  IF c > i + 1
                  THEN <<SubSeq(s, i + 1, c - 1)>> \o BracePlaceholders(s, c + 1)
                  ELSE BracePlaceholders(s, i + 1)
         ELSE BracePlaceholders(s, i + 1)

IsIdentStart(c) == c \in Letters \cup {"_"}
IsIdentChar(c) == c \in Letters \cup Digits \cup {"_"}

\* the end of the run of identifier characters that starts at position i
RECURSIVE IdentEnd(_, _)
IdentEnd(s, i) ==
    IF i + 1 <= Len(s) /\ IsIdentChar(s[i + 1]) THEN IdentEnd(s, i + 1) ELSE i

\* re.findall(r':([a-zA-Z_][a-zA-Z0-9_]*)', url_path), scanning from position i
RECURSIVE ColonPlaceholders(_, _)
ColonPlaceholders(s, i) ==
    IF i > Len(s) THEN <<>>
    ELSE IF s[i] = ":" /\ i + 1 <= Len(s) /\ IsIdentStart(s[i + 1])
         THEN LET e == IdentEnd(s, i + 1)
              IN  <<SubSeq(s, i + 1, e)>> \o ColonPlaceholders(s, e + 1)
         ELSE ColonPlaceholders(s, i + 1)

\* if not url_path.startswith("/"): url_path = "/" + url_path
EnsureLeadingSlash(s) == IF s # <<>> /\ s[1] = "/" THEN s ELSE <<"/">> \o s

\* source_map of _extract_openapi_parameters, with its default
OpenapiSource(in) ==
    CASE in = "query"  -> "query"
      [] in = "path"   -> "path"
      [] in = "header" -> "header"
      [] in = "cookie" -> "header"
      [] OTHER         -> "query"

\* source_map of _extract_swagger_parameters, with its default
SwaggerSource(in) ==
    CASE in = "query"    -> "query"
      [] in = "path"     -> "path"
      [] in = "header"   -> "header"
      [] in = "formData" -> "body"
      [] in = "body"     -> "body"
      [] OTHER           -> "query"

\* the loop over method_data["parameters"] of the two specification parsers
RECURSIVE DeclaredLoop(_, _, _, _)
DeclaredLoop(declared, i, acc, swagger) ==
    IF i > Len(declared) THEN acc
    ELSE LET d == declared[i]
             source == IF swagger THEN SwaggerSource(d.in) ELSE OpenapiSource(d.in)
         IN  DeclaredLoop(declared, i + 1,
                 DictSet(acc, Param(d.name, OrDefault(d.type, "string"), source,
                                    RequiredOrFalse(d))),
                 swagger)

\* for param_name in path_params: if param_name not in parameters: add it
RECURSIVE AddMissingPathParams(_, _, _)
AddMissingPathParams(names, i, acc) ==
    IF i > Len(names) THEN acc
    ELSE IF DictHas(acc, names[i]) THEN AddMissingPathParams(names, i + 1, acc)
         ELSE AddMissingPathParams(names, i + 1,
                  Append(acc, Param(names[i], "string", "path", TRUE)))

\* for name in names: parameters[name] = {type string, source, required}
RECURSIVE SetAll(_, _, _, _, _)
SetAll(names, i, acc, source, required) ==
    IF i > Len(names) THEN acc
    ELSE SetAll(names, i + 1, DictSet(acc, Param(names[i], "string", source, required)),
                source, required)

\* JSONAnalyzer._extract_openapi_parameters
ExtractOpenapiParameters(declared, body, path) ==
    LET fromDeclared == DeclaredLoop(declared, 1, <<>>, FALSE)
        withPath == AddMissingPathParams(BracePlaceholders(path, 1), 1, fromDeclared)
    IN  SetAll(body, 1, withPath, "body", FALSE)

\* JSONAnalyzer._extract_swagger_parameters
ExtractSwaggerParameters(declared, path) == DeclaredLoop(declared, 1, <<>>, TRUE)

\* "required": not param.get("disabled", False), the declared flag read as enabled
NotDisabled(d) == d.required # "false"

\* the query parameters of a collection request
RECURSIVE QueryLoop(_, _, _)
QueryLoop(declared, i, acc) ==
    IF i > Len(declared) THEN acc
    ELSE QueryLoop(declared, i + 1,
             DictSet(acc, Param(declared[i].name, "string", "query", NotDisabled(declared[i]))))

\* JSONAnalyzer._extract_postman_parameters
ExtractPostmanParameters(declared, headers, body, url_path) ==
    LET query == QueryLoop(declared, 1, <<>>)
        withPath == SetAll(ColonPlaceholders(url_path, 1), 1, query, "path", TRUE)
        withHeaders == SetAll(headers, 1, withPath, "header", TRUE)
    IN  SetAll(body, 1, withHeaders, "body", TRUE)

\* JSONAnalyzer._extract_insomnia_parameters
ExtractInsomniaParameters(declared, headers, url_path) ==
    LET query == QueryLoop(declared, 1, <<>>)
        withPath == SetAll(BracePlaceholders(url_path, 1), 1, query, "path", TRUE)
    IN  SetAll(headers, 1, withPath, "header", TRUE)

\* JSONAnalyzer._extract_custom_parameters: the declared location is copied as is
RECURSIVE CustomLoop(_, _, _)
CustomLoop(declared, i, acc) ==
    IF i > Len(declared) THEN acc
    ELSE LET d == declared[i]
         IN  CustomLoop(declared, i + 1,
                 DictSet(acc, Param(d.name, OrDefault(d.type, "string"),
                                    OrDefault(d.in, "query"), RequiredOrFalse(d))))

\* every listed parameter recorded as an optional query parameter
RECURSIVE CustomLoopQueryOnly(_, _, _)
CustomLoopQueryOnly(declared, i, acc) ==
    IF i > Len(declared) THEN acc
    ELSE CustomLoopQueryOnly(declared, i + 1,
             DictSet(acc, Param(declared[i].name, "string", "query", FALSE)))

ExtractCustomParametersQueryOnly(declared) == CustomLoopQueryOnly(declared, 1, <<>>)

ExtractCustomParameters(declared) == CustomLoop(declared, 1, <<>>)

ParseInit ==
    /\ opPath \in ParsePaths
    /\ opDeclared \in DeclaredLists
    /\ opBody \in NameLists
    /\ opHeaders \in NameLists
    /\ parsedBy = "none"
    /\ recordUrl = <<>>
    /\ recordParams = <<>>
    /\ MergeIdle
    /\ NameIdle
    /\ GenIdle
    /\ BatchIdle
    /\ DiscoverIdle
    /\ CrawlIdle
    /\ DetectIdle
    /\ InferIdle
    /\ FrameworkIdle
    /\ SpecFilesIdle
    /\ DocsIdle
    /\ ToolsIdle
    /\ CustomIdle
    /\ SessionsIdle
    /\ HttpIdle
    /\ MarkdownIdle
    /\ LocalIdle
    /\ CleanupIdle

\* JSONAnalyzer._parse_openapi_spec, one operation
ParseOpenapi ==
    /\ parsedBy = "none"
    /\ parsedBy' = "openapi"
    /\ recordUrl' = opPath
    /\ recordParams' = ExtractOpenapiParameters(opDeclared, opBody, opPath)
    /\ UNCHANGED <<opPath, opDeclared, opBody, opHeaders, mergeVars, nameVars, genVars, batchVars,
                   discoverVars, crawlVars, detectVars, inferVars, frameworkVars, specVars,
                   docVars, toolsVars, customVars, sessionVars, httpVars, markdownVars,
                   localVars, cleanupVars>>

\* JSONAnalyzer._parse_swagger_spec, one operation
ParseSwagger ==
    /\ parsedBy = "none"
    /\ parsedBy' = "swagger"
    /\ recordUrl' = opPath
    /\ recordParams' = ExtractSwaggerParameters(opDeclared, opPath)
    /\ UNCHANGED <<opPath, opDeclared, opBody, opHeaders, mergeVars, nameVars, genVars, batchVars,
                   discoverVars, crawlVars, detectVars, inferVars, frameworkVars, specVars,
                   docVars, toolsVars, customVars, sessionVars, httpVars, markdownVars,
                   localVars, cleanupVars>>

\* JSONAnalyzer._parse_postman_items, one request
ParsePostman ==
    /\ parsedBy = "none"
    /\ parsedBy' = "postman"
    /\ recordUrl' = EnsureLeadingSlash(opPath)
    /\ recordParams' = ExtractPostmanParameters(opDeclared, opHeaders, opBody, recordUrl')
    /\ UNCHANGED <<opPath, opDeclared, opBody, opHeaders, mergeVars, nameVars, genVars, batchVars,
                   discoverVars, crawlVars, detectVars, inferVars, frameworkVars, specVars,
                   docVars, toolsVars, customVars, sessionVars, httpVars, markdownVars,
                   localVars, cleanupVars>>

\* JSONAnalyzer._parse_insomnia_collection, one request resource
ParseInsomnia ==
    /\ parsedBy = "none"
    /\ parsedBy' = "insomnia"
    /\ recordUrl' = opPath
    /\ recordParams' = ExtractInsomniaParameters(opDeclared, opHeaders, recordUrl')
    /\ UNCHANGED <<opPath, opDeclared, opBody, opHeaders, mergeVars, nameVars, genVars, batchVars,
                   discoverVars, crawlVars, detectVars, inferVars, frameworkVars, specVars,
                   docVars, toolsVars, customVars, sessionVars, httpVars, markdownVars,
                   localVars, cleanupVars>>

\* JSONAnalyzer._parse_custom_endpoints, one item
ParseCustom ==
    /\ parsedBy = "none"
    /\ parsedBy' = "custom"
    /\ recordUrl' = EnsureLeadingSlash(opPath)
    /\ recordParams' = ExtractCustomParameters(opDeclared)
    /\ UNCHANGED <<opPath, opDeclared, opBody, opHeaders, mergeVars, nameVars, genVars, batchVars,
                   discoverVars, crawlVars, detectVars, inferVars, frameworkVars, specVars,
                   docVars, toolsVars, customVars, sessionVars, httpVars, markdownVars,
                   localVars, cleanupVars>>

ParseNext == ParseOpenapi \/ ParseSwagger \/ ParsePostman \/ ParseInsomnia \/ ParseCustom

SpecParse == ParseInit /\ [][ParseNext]_vars

\* the placeholder tokens of a record's url: colon-prefixed in a collection
\* export, brace-delimited elsewhere
Placeholders(by, url) ==
    IF by = "postman" THEN Range(ColonPlaceholders(url, 1)) ELSE Range(BracePlaceholders(url, 1))

PathEntryFor(params, name) ==
    /\ Cardinality({k \in 1..Len(params) : params[k].name = name}) = 1
    /\ \A k \in 1..Len(params) : params[k].name = name => params[k].source = "path"

\* C2: in every record a parser produces, each placeholder token of the path
\* has exactly one entry in parameters, and that entry has source = path, also
\* when the declared list omits the placeholder or declares it elsewhere.
C2_PlaceholdersHavePathEntries ==
    parsedBy # "none" =>
        \A name \in Placeholders(parsedBy, recordUrl) : PathEntryFor(recordParams, name)

\* the source a declared location stands for
DirectSource(in) == IF in \in {"formData", "body"} THEN "body" ELSE in

\* C14: in a record of a specification parser, a parameter declared with a
\* location has that location as its source: query, path, header and cookie
\* map to themselves, formData and body map to body.
C14_LocationMapsDirectly ==
    parsedBy \in {"openapi", "swagger"} =>
        \A i \in 1..Len(opDeclared) :
            (opDeclared[i].in # Absent /\ opDeclared[i].name \notin Range(opBody)) =>
                \E k \in 1..Len(recordParams) :
                    /\ recordParams[k].name = opDeclared[i].name
                    /\ recordParams[k].source = DirectSource(opDeclared[i].in)

\* the names that other parts of the operation (placeholders of the path, body
\* properties, headers) write into the record
OtherNames == Placeholders(parsedBy, recordUrl) \cup Range(opBody) \cup Range(opHeaders)

\* C19: a listed parameter that omits a field gets the conservative default in
\* its record, whatever the format: with no declared location its source is
\* query, with no declared requiredness it is not required.
C19_OmittedFieldsGetDefaults ==
    parsedBy # "none" =>
        \A i \in 1..Len(opDeclared) :
            opDeclared[i].name \notin OtherNames =>
                \E k \in 1..Len(recordParams) :
                    /\ recordParams[k].name = opDeclared[i].name
                    /\ opDeclared[i].in = Absent => recordParams[k].source = "query"
                    /\ opDeclared[i].required = Absent => ~ recordParams[k].required

------------------------------------------------------------------------------
(* Tool generation: MCPServerGenerator._generate_fastmcp_tool *)

MaxParams == 2

\* a "type" value that is a list, as an OpenAPI 3.1 schema may give; a list is
\* unhashable
ListType == "list"

NameX == <<"x">>
GenNames == {NameA, NameB, NameX}

GenUrls ==
    {JoinSegments(<<<<"u">>>>),
     JoinSegments(<<<<"{", "a", "}">>>>),
     JoinSegments(<<<<"u">>, <<"{", "a", "}">>>>),
     JoinSegments(<<<<"{", "a", "}">>, <<"{", "b", "}">>>>)}

GenMethods == {"GET", "POST"}

\* a parameter's info dict; "required" may be missing from it
GenParamInfos ==
    [name : GenNames,
     type : {"string", "integer"},
     source : {"path", "query", "body"},
     required : {"true", "false", Absent}]

DistinctNames(ps) == \A i, j \in 1..Len(ps) : ps[i].name = ps[j].name => i = j

GenParamLists == {ps \in SeqsUpTo(GenParamInfos, MaxParams) : DistinctNames(ps)}

\* the type map of the generator, with its default
PythonType(type) ==
    CASE type = "string"  -> "str"
      [] type = "integer" -> "int"
      [] type = "boolean" -> "bool"
      [] type = "array"   -> "List[str]"
      [] type = "object"  -> "Dict[str, Any]"
      [] type = "float"   -> "float"
      [] type = "unknown" -> "str"
      [] OTHER            -> "str"

\* required = param_info.get('required', True); if required: ...
IsRequired(info) == info.required # "false"

FuncParam(info) ==
    [name |-> info.name, type |-> PythonType(info.type), optional |-> ~IsRequired(info)]

\* the parameters of ps, in order, that satisfy keep
RECURSIVE SelectParams(_, _, _)
SelectParams(ps, i, wantRequired) ==
    IF i > Len(ps) THEN <<>>
    ELSE IF IsRequired(ps[i]) = wantRequired
         THEN <<FuncParam(ps[i])>> \o SelectParams(ps, i + 1, wantRequired)
         ELSE SelectParams(ps, i + 1, wantRequired)

HeadersParam == [name |-> <<"h", "e", "a", "d", "e", "r", "s">>,
                 type |-> "Dict[str, str]", optional |-> TRUE]

\* a signature that lists the parameters as discovered
SignatureInDiscoveryOrder(ps) ==
    [i \in 1..Len(ps) |-> FuncParam(ps[i])] \o <<HeadersParam>>

\* func_params = required_params + optional_params, then the headers parameter
Signature(ps) ==
    SelectParams(ps, 1, TRUE) \o SelectParams(ps, 1, FALSE) \o <<HeadersParam>>

\* s.replace(old, new), old not empty
RECURSIVE ReplaceAll(_, _, _)
ReplaceAll(s, old, new) ==
    IF Len(s) < Len(old) THEN s
    ELSE IF SubSeq(s, 1, Len(old)) = old
         THEN new \o ReplaceAll(SubSeq(s, Len(old) + 1, Len(s)), old, new)
         ELSE <<s[1]>> \o ReplaceAll(Tail(s), old, new)

\* f'{{{param_name}}}'
Braced(name) == <<"{">> \o name \o <<"}">>

\* the loop over the parameters from position i on: for each path-sourced one,
\* url_template.replace(f'{{{param_name}}}', f'{{{param_name}}}')
RECURSIVE UrlTemplateLoop(_, _, _)
UrlTemplateLoop(url_template, ps, i) ==
    IF i > Len(ps) THEN url_template
    ELSE IF ps[i].source = "path"
         THEN UrlTemplateLoop(ReplaceAll(url_template, Braced(ps[i].name), Braced(ps[i].name)),
                              ps, i + 1)
         ELSE UrlTemplateLoop(url_template, ps, i + 1)

UrlTemplate(url, ps) == UrlTemplateLoop(url, ps, 1)

\* the names of all the parameters from position i on, whatever their source
RECURSIVE AllParamNames(_, _)
AllParamNames(ps, i) ==
    IF i > Len(ps) THEN <<>> ELSE <<ps[i].name>> \o AllParamNames(ps, i + 1)

\* body_params: the names whose source is body, for POST, PUT and PATCH
RECURSIVE BodyParams(_, _)
BodyParams(ps, i) ==
    IF i > Len(ps) THEN <<>>
    ELSE IF ps[i].source = "body" THEN <<ps[i].name>> \o BodyParams(ps, i + 1)
         ELSE BodyParams(ps, i + 1)

\* the type map is a dict lookup: a list-valued type raises TypeError
RaisesOnType(ps) == \E i \in 1..Len(ps) : ps[i].type = ListType

\* MCPServerGenerator._generate_fastmcp_tool
FastmcpTool(url, method, ps) ==
    IF RaisesOnType(ps) THEN [status |-> "raised"]
    ELSE [status |-> "generated",
          name |-> FastmcpToolName(url, method),
          signature |-> Signature(ps),
          url_template |-> UrlTemplate(url, ps),
          body |-> IF method \in {"POST", "PUT", "PATCH"} THEN BodyParams(ps, 1) ELSE <<>>]

GenInit ==
    /\ genUrl \in GenUrls
    /\ genMethod \in GenMethods
    /\ genParams \in GenParamLists
    /\ tool = NoTool
    /\ callArgs = <<>>
    /\ data = NoData
    /\ request = NoData
    /\ MergeIdle
    /\ NameIdle
    /\ ParseIdle
    /\ BatchIdle
    /\ DiscoverIdle
    /\ CrawlIdle
    /\ DetectIdle
    /\ InferIdle
    /\ FrameworkIdle
    /\ SpecFilesIdle
    /\ DocsIdle
    /\ ToolsIdle
    /\ CustomIdle
    /\ SessionsIdle
    /\ HttpIdle
    /\ MarkdownIdle
    /\ LocalIdle
    /\ CleanupIdle

\* one call of _generate_fastmcp_tool
GenerateFastmcpTool ==
    /\ tool = NoTool
    /\ tool' = FastmcpTool(genUrl, genMethod, genParams)
    /\ UNCHANGED <<genUrl, genMethod, genParams, callArgs, data, request, mergeVars, nameVars,
                   parseVars, batchVars, discoverVars, crawlVars, detectVars, inferVars,
                   frameworkVars, specVars, docVars, toolsVars, customVars, sessionVars,
                   httpVars, markdownVars, localVars, cleanupVars>>

GenNext == GenerateFastmcpTool

SpecGen == GenInit /\ [][GenNext]_vars

\* the positions of the signature before the trailing headers parameter
OwnParams(sig) == 1..(Len(sig) - 1)

\* the order of the parameters of one group in the endpoint record
GroupInDiscoveryOrder(ps, sig, optional) ==
    LET group == {i \in 1..Len(ps) : ~IsRequired(ps[i]) = optional}
    IN  \A i, j \in group : i < j =>
            \E k, m \in OwnParams(sig) :
                /\ k < m
                /\ sig[k].name = ps[i].name
                /\ sig[m].name = ps[j].name

\* C5: in every generated signature no optional parameter precedes a required
\* one, and within the required group and within the optional group the
\* parameters keep their order of discovery in the endpoint record.
C5_RequiredBeforeOptional ==
    tool.status = "generated" =>
        /\ Len(tool.signature) = Len(genParams) + 1
        /\ \A k, m \in OwnParams(tool.signature) :
              (tool.signature[k].optional /\ ~tool.signature[m].optional) => m < k
        /\ \A k \in OwnParams(tool.signature) :
              \E i \in 1..Len(genParams) :
                  /\ genParams[i].name = tool.signature[k].name
                  /\ tool.signature[k].optional = ~IsRequired(genParams[i])
        /\ GroupInDiscoveryOrder(genParams, tool.signature, FALSE)
        /\ GroupInDiscoveryOrder(genParams, tool.signature, TRUE)

\* a signature generated from a record that lists an optional parameter first
C5_Witness ==
    /\ tool.status = "generated"
    /\ Len(genParams) = 2
    /\ ~IsRequired(genParams[1])
    /\ IsRequired(genParams[2])
    /\ tool.signature[1].name = genParams[2].name
    /\ tool.signature[2].optional

\* the placeholders of the url that no entry of the parameters names
MissingPlaceholders(url, ps) ==
    {n \in Range(BracePlaceholders(url, 1)) : ~DictHas(ps, n)}

\* C6: if the record has a path placeholder with no parameter entry, generation
\* adds a required, string-typed, path-sourced parameter for it and raises no
\* error.
C6_MissingPlaceholderSynthesized ==
    tool # NoTool =>
        /\ tool.status = "generated"
        /\ \A n \in MissingPlaceholders(genUrl, genParams) :
              \E k \in OwnParams(tool.signature) :
                  /\ tool.signature[k].name = n
                  /\ tool.signature[k].type = "str"
                  /\ ~tool.signature[k].optional

\* the placeholders of a template that a path-sourced parameter resolves
ResolvedPlaceholders(ps) == {ps[i].name : i \in {k \in 1..Len(ps) : ps[k].source = "path"}}

\* C7: no tool is emitted whose url template still holds a placeholder that no
\* path-sourced parameter resolves; generation of such a tool fails instead.
C7_NoUnresolvedPlaceholder ==
    tool.status = "generated" =>
        Range(BracePlaceholders(tool.url_template, 1)) \subseteq ResolvedPlaceholders(genParams)

------------------------------------------------------------------------------
(* A call of a generated tool: the body of the function that
   _generate_fastmcp_tool writes, and make_request *)

None == "None"

CallParamInfos ==
    [name : GenNames,
     type : {"string"},
     source : {"path", "query", "body"},
     required : {"true", "false"}]

CallParamLists == {ps \in SeqsUpTo(CallParamInfos, MaxParams) : DistinctNames(ps)}

CallInit ==
    /\ genUrl \in GenUrls
    /\ genMethod \in HTTPMethod
    /\ genParams \in CallParamLists
    /\ tool = NoTool
    /\ callArgs = <<>>
    /\ data = NoData
    /\ request = NoData
    /\ MergeIdle
    /\ NameIdle
    /\ ParseIdle
    /\ BatchIdle
    /\ DiscoverIdle
    /\ CrawlIdle
    /\ DetectIdle
    /\ InferIdle
    /\ FrameworkIdle
    /\ SpecFilesIdle
    /\ DocsIdle
    /\ ToolsIdle
    /\ CustomIdle
    /\ SessionsIdle
    /\ HttpIdle
    /\ MarkdownIdle
    /\ LocalIdle
    /\ CleanupIdle

\* data = {"p": p, ...}; data = {k: v for k, v in data.items() if v is not None};
\* without data_prep_lines the tool passes None
BuildData(generated, args) ==
    IF generated.body # <<>>
    THEN [kind |-> "dict", keys |-> SelectSeq(generated.body, LAMBDA p : args[p] # None)]
    ELSE [kind |-> "none", keys |-> <<>>]

\* make_request: GET and DELETE send no body, POST and PUT send json=data, any
\* other method is answered 405 without a request
MakeRequest(method, d) ==
    CASE method \in {"GET", "DELETE"} -> [kind |-> "sent", json |-> [kind |-> "none", keys |-> <<>>]]
      [] method \in {"POST", "PUT"}   -> [kind |-> "sent", json |-> d]
      [] OTHER                        -> [kind |-> "unsupported"]

\* the generated function is called with a value or None for each parameter
CallTool ==
    /\ tool.status = "generated"
    /\ data = NoData
    /\ \E args \in [Range(AllParamNames(genParams, 1)) -> {"value", None}] :
          /\ callArgs' = args
          /\ data' = BuildData(tool, args)
          /\ request' = MakeRequest(genMethod, BuildData(tool, args))
    /\ UNCHANGED <<genUrl, genMethod, genParams, tool, mergeVars, nameVars, parseVars,
                   batchVars, discoverVars, crawlVars, detectVars, inferVars, frameworkVars,
                   specVars, docVars, toolsVars, customVars, sessionVars, httpVars,
                   markdownVars, localVars, cleanupVars>>

CallNext == GenerateFastmcpTool \/ CallTool

SpecCall == CallInit /\ [][CallNext]_vars

\* the body-sourced parameters of ps that args gives a value
GivenBodyParams(ps, args) ==
    {ps[i].name : i \in {k \in 1..Len(ps) : ps[k].source = "body" /\ args[ps[k].name] # None}}

------------------------------------------------------------------------------
(* Generation of a batch: _generate_fastmcp_python_code's loop, as
   generate_mcp_server_content runs it *)

MaxBatch == 3

BatchEndpoint(url, method, ps) == [url |-> url, method |-> method, parameters |-> ps]

\* endpoints of a batch: without parameters, with a path parameter, and with a
\* parameter whose declared type is a list
BatchEndpoints ==
    {BatchEndpoint(<<"/", "u">>, "GET", <<>>),
     BatchEndpoint(<<"/", "{", "a", "}">>, "GET",
                   <<[name |-> NameA, type |-> "string", source |-> "path", required |-> "true"]>>),
     BatchEndpoint(<<"/", "u">>, "POST",
                   <<[name |-> NameB, type |-> ListType, source |-> "query", required |-> "false"]>>)}

BatchInit ==
    /\ batch \in SeqsUpTo(BatchEndpoints, MaxBatch)
    /\ batchPos = 1
    /\ endpointTools = <<>>
    /\ batchResult = <<>>
    /\ bpc = "loop"
    /\ MergeIdle
    /\ NameIdle
    /\ ParseIdle
    /\ GenIdle
    /\ DiscoverIdle
    /\ CrawlIdle
    /\ DetectIdle
    /\ InferIdle
    /\ FrameworkIdle
    /\ SpecFilesIdle
    /\ DocsIdle
    /\ ToolsIdle
    /\ CustomIdle
    /\ SessionsIdle
    /\ HttpIdle
    /\ MarkdownIdle
    /\ LocalIdle
    /\ CleanupIdle

ToolFor(ep) == FastmcpTool(ep.url, ep.method, ep.parameters)

\* one turn of: for endpoint in api_discovery.endpoints: endpoint_tools.append(...)
GenerateNextTool ==
    /\ bpc = "loop"
    /\ batchPos <= Len(batch)
    /\ ToolFor(batch[batchPos]).status = "generated"
    /\ endpointTools' = Append(endpointTools, ToolFor(batch[batchPos]))
    /\ batchPos' = batchPos + 1
    /\ UNCHANGED <<batch, batchResult, bpc, mergeVars, nameVars, parseVars, genVars,
                   discoverVars, crawlVars, detectVars, inferVars, frameworkVars, specVars,
                   docVars, toolsVars, customVars, sessionVars, httpVars, markdownVars,
                   localVars, cleanupVars>>

\* the call raises inside the loop; generate_mcp_server_content logs and re-raises
GenerateNextToolRaises ==
    /\ bpc = "loop"
    /\ batchPos <= Len(batch)
    /\ ToolFor(batch[batchPos]).status = "raised"
    /\ bpc' = "raised"
    /\ UNCHANGED <<batch, batchPos, endpointTools, batchResult, mergeVars, nameVars,
                   parseVars, genVars,
                   discoverVars, crawlVars, detectVars, inferVars, frameworkVars, specVars,
                   docVars, toolsVars, customVars, sessionVars, httpVars, markdownVars,
                   localVars, cleanupVars>>

\* the loop is over: the code holding every tool is returned
ReturnTools ==
    /\ bpc = "loop"
    /\ batchPos > Len(batch)
    /\ batchResult' = endpointTools
    /\ bpc' = "done"
    /\ UNCHANGED <<batch, batchPos, endpointTools, mergeVars, nameVars, parseVars, genVars,
                   discoverVars, crawlVars, detectVars, inferVars, frameworkVars, specVars,
                   docVars, toolsVars, customVars, sessionVars, httpVars, markdownVars,
                   localVars, cleanupVars>>

BatchNext == GenerateNextTool \/ GenerateNextToolRaises \/ ReturnTools

SpecBatch == BatchInit /\ [][BatchNext]_vars

\* the tools of the endpoints of eps whose own generation does not fail
RECURSIVE ToolsOfSound(_, _)
ToolsOfSound(eps, i) ==
    IF i > Len(eps) THEN <<>>
    ELSE IF ToolFor(eps[i]).status = "generated"
         THEN <<ToolFor(eps[i])>> \o ToolsOfSound(eps, i + 1)
         ELSE ToolsOfSound(eps, i + 1)

\* C8: when generation fails for one endpoint of a batch, only that endpoint is
\* dropped: the run ends by returning the tools of every other endpoint.
C8_OnlyFailingEndpointDropped ==
    bpc \in {"done", "raised"} =>
        /\ bpc = "done"
        /\ batchResult = ToolsOfSound(batch, 1)

------------------------------------------------------------------------------
(* Merge stage *)

MaxEndpoints == 3

\* URLs as character sequences; one of them holds the ':' the key is joined with
MergeUrls == {<<"/", "u">>, <<"/", "u", ":">>}
MergeMethods == {"GET", "POST"}
MergeDescriptions == {"A", "B"}

MergeRecords == [url : MergeUrls, method : MergeMethods, description : MergeDescriptions]

\* key = f"{endpoint.url}:{endpoint.method}"
DedupKey(ep) == ep.url \o <<":">> \o <<ep.method>>

\* the loop of _deduplicate_endpoints over eps[i..], with `seen` and `acc` so far
RECURSIVE DedupLoop(_, _, _, _)
DedupLoop(eps, i, seen, acc) ==
    IF i > Len(eps) THEN acc
    ELSE IF DedupKey(eps[i]) \notin seen
         THEN DedupLoop(eps, i + 1, seen \cup {DedupKey(eps[i])}, Append(acc, eps[i]))
         ELSE DedupLoop(eps, i + 1, seen, acc)

\* a merge in which a later record replaces the one kept for its key
RECURSIVE DedupLastWinsLoop(_, _, _)
DedupLastWinsLoop(eps, i, acc) ==
    IF i > Len(eps) THEN acc
    ELSE LET hit == {k \in 1..Len(acc) : DedupKey(acc[k]) = DedupKey(eps[i])}
         IN  IF hit = {}
             THEN DedupLastWinsLoop(eps, i + 1, Append(acc, eps[i]))
             ELSE DedupLastWinsLoop(eps, i + 1,
                      [k \in 1..Len(acc) |-> IF k \in hit THEN eps[i] ELSE acc[k]])

DeduplicateLastWins(eps) == DedupLastWinsLoop(eps, 1, <<>>)

\* APIDiscoverer._deduplicate_endpoints
DeduplicateEndpoints(eps) == DedupLoop(eps, 1, {}, <<>>)

\* { (ep.method, ep.url): ep for ep in endpoints }.values(): a dict keeps the
\* position of a key's first insertion and the value of its last assignment
RECURSIVE DictByMethodUrl(_, _, _)
DictByMethodUrl(eps, i, acc) ==
    IF i > Len(eps) THEN acc
    ELSE LET hit == {k \in 1..Len(acc) :
                        acc[k].method = eps[i].method /\ acc[k].url = eps[i].url}
         IN  IF hit = {}
             THEN DictByMethodUrl(eps, i + 1, Append(acc, eps[i]))
             ELSE DictByMethodUrl(eps, i + 1,
                      [k \in 1..Len(acc) |-> IF k \in hit THEN eps[i] ELSE acc[k]])

\* EnhancedAPIAnalyzer._analyze_python_file: the per-file deduplication
PythonFileDedup(eps) == DictByMethodUrl(eps, 1, <<>>)

\* order of two URLs as Python compares strings; the URLs of MergeUrls differ
\* only by one being a proper prefix of the other
UrlLess(a, b) == Len(a) < Len(b) /\ SubSeq(b, 1, Len(a)) = a

\* list.sort(key=lambda x: x.url): a stable insertion of x into sorted acc
RECURSIVE SortedInsert(_, _, _)
SortedInsert(acc, x, k) ==
    IF k > Len(acc) THEN Append(acc, x)
    ELSE IF UrlLess(x.url, acc[k].url) THEN InsertAt(acc, k, x)
         ELSE SortedInsert(acc, x, k + 1)

RECURSIVE SortByUrl(_, _, _)
SortByUrl(eps, i, acc) ==
    IF i > Len(eps) THEN acc ELSE SortByUrl(eps, i + 1, SortedInsert(acc, eps[i], 1))

\* the "avoid duplicates" test of PDFAnalyzer._extract_api_endpoints
RECURSIVE PdfAvoidDuplicates(_, _, _)
PdfAvoidDuplicates(eps, i, acc) ==
    IF i > Len(eps) THEN acc
    ELSE IF \E k \in 1..Len(acc) : acc[k].url = eps[i].url /\ acc[k].method = eps[i].method
         THEN PdfAvoidDuplicates(eps, i + 1, acc)
         ELSE PdfAvoidDuplicates(eps, i + 1, Append(acc, eps[i]))

\* PDFAnalyzer._extract_api_endpoints over the records of its matches
PdfExtractDedup(eps) == SortByUrl(PdfAvoidDuplicates(eps, 1, <<>>), 1, <<>>)

ApplyMerge(op, eps) ==
    CASE op = "api_discoverer" -> DeduplicateEndpoints(eps)
      [] op = "python_file"    -> PythonFileDedup(eps)
      [] op = "pdf"            -> PdfExtractDedup(eps)

MergeInit ==
    /\ endpoints \in SeqsUpTo(MergeRecords, MaxEndpoints)
    /\ unique = <<>>
    /\ mergeOp = "none"
    /\ again = <<>>
    /\ repeated = <<>>
    /\ repeatedFrom = <<0, 0>>
    /\ uniqueRep = <<>>
    /\ mpc = "start"
    /\ NameIdle
    /\ ParseIdle
    /\ GenIdle
    /\ BatchIdle
    /\ DiscoverIdle
    /\ CrawlIdle
    /\ DetectIdle
    /\ InferIdle
    /\ FrameworkIdle
    /\ SpecFilesIdle
    /\ DocsIdle
    /\ ToolsIdle
    /\ CustomIdle
    /\ SessionsIdle
    /\ HttpIdle
    /\ MarkdownIdle
    /\ LocalIdle
    /\ CleanupIdle

\* discover_apis: unique_endpoints = self._deduplicate_endpoints(endpoints)
Deduplicate ==
    /\ mpc = "start"
    /\ unique' = DeduplicateEndpoints(endpoints)
    /\ mergeOp' = "api_discoverer"
    /\ mpc' = "merged"
    /\ UNCHANGED <<endpoints, again, repeated, repeatedFrom, uniqueRep, nameVars, parseVars, genVars, batchVars,
                   discoverVars, crawlVars, detectVars, inferVars, frameworkVars, specVars,
                   docVars, toolsVars, customVars, sessionVars, httpVars, markdownVars,
                   localVars, cleanupVars>>

\* _analyze_python_file: the endpoints of one file, deduplicated by (method, url)
AnalyzePythonFile ==
    /\ mpc = "start"
    /\ unique' = PythonFileDedup(endpoints)
    /\ mergeOp' = "python_file"
    /\ mpc' = "merged"
    /\ UNCHANGED <<endpoints, again, repeated, repeatedFrom, uniqueRep, nameVars, parseVars, genVars, batchVars,
                   discoverVars, crawlVars, detectVars, inferVars, frameworkVars, specVars,
                   docVars, toolsVars, customVars, sessionVars, httpVars, markdownVars,
                   localVars, cleanupVars>>

\* _extract_api_endpoints: the matches' records, deduplicated and sorted
PdfExtract ==
    /\ mpc = "start"
    /\ unique' = PdfExtractDedup(endpoints)
    /\ mergeOp' = "pdf"
    /\ mpc' = "merged"
    /\ UNCHANGED <<endpoints, again, repeated, repeatedFrom, uniqueRep, nameVars, parseVars, genVars, batchVars,
                   discoverVars, crawlVars, detectVars, inferVars, frameworkVars, specVars,
                   docVars, toolsVars, customVars, sessionVars, httpVars, markdownVars,
                   localVars, cleanupVars>>

\* the same merge run on its own output
MergeAgain ==
    /\ mpc = "merged"
    /\ again' = ApplyMerge(mergeOp, unique)
    /\ mpc' = "again"
    /\ UNCHANGED <<endpoints, unique, mergeOp, repeated, repeatedFrom, uniqueRep, nameVars, parseVars, genVars, batchVars,
                   discoverVars, crawlVars, detectVars, inferVars, frameworkVars, specVars,
                   docVars, toolsVars, customVars, sessionVars, httpVars, markdownVars,
                   localVars, cleanupVars>>

\* the same merge run on the input with the record at i repeated at a later place j
MergeRepeated ==
    /\ mpc = "merged"
    /\ \E i \in 1..Len(endpoints) : \E j \in (i + 1)..(Len(endpoints) + 1) :
          /\ repeated' = InsertAt(endpoints, j, endpoints[i])
          /\ repeatedFrom' = <<i, j>>
          /\ uniqueRep' = ApplyMerge(mergeOp, repeated')
    /\ mpc' = "repeated"
    /\ UNCHANGED <<endpoints, unique, mergeOp, again, nameVars, parseVars, genVars, batchVars,
                   discoverVars, crawlVars, detectVars, inferVars, frameworkVars, specVars,
                   docVars, toolsVars, customVars, sessionVars, httpVars, markdownVars,
                   localVars, cleanupVars>>

MergeNext == Deduplicate \/ AnalyzePythonFile \/ PdfExtract \/ MergeAgain \/ MergeRepeated

SpecMerge == MergeInit /\ [][MergeNext]_vars

------------------------------------------------------------------------------
(* Claims about the merge stage *)

SamePair(a, b) == a.method = b.method /\ a.url = b.url

\* the first record of eps that carries the (method, path) pair of r
FirstCarrying(eps, r) ==
    eps[CHOOSE i \in 1..Len(eps) :
            SamePair(eps[i], r) /\ \A k \in 1..(i - 1) : ~SamePair(eps[k], r)]

\* out holds exactly one record per (method, path) pair of eps: the first carrying it
FirstSeenWins(eps, out) ==
    /\ \A i \in 1..Len(eps) : \E k \in 1..Len(out) : SamePair(out[k], eps[i])
    /\ \A k \in 1..Len(out) :
          /\ \E i \in 1..Len(eps) : SamePair(out[k], eps[i])
          /\ out[k] = FirstCarrying(eps, out[k])
          /\ \A m \in 1..Len(out) : SamePair(out[k], out[m]) => k = m

\* C1: every merge yields exactly one record for each distinct (method, path)
\* pair of its input, and that record is the first one carrying the pair; a
\* later record with the same pair never replaces it.
C1_FirstSeenWins == mpc = "merged" => FirstSeenWins(endpoints, unique)

\* C1, for the merge of the discovery run alone (_deduplicate_endpoints)
C1_DiscovererFirstSeenWins ==
    (mpc = "merged" /\ mergeOp = "api_discoverer") => FirstSeenWins(endpoints, unique)

\* C4: merge is idempotent: applied to its own output, or to an input list in
\* which a record is repeated exactly (the copy at any later place), it yields
\* the same set of records as applied once to the original list. The merges of
\* the claim are _deduplicate_endpoints and the PDF extractor's.
C4_MergeIdempotent ==
    mergeOp \in {"api_discoverer", "pdf"} =>
        /\ mpc = "again" => (again = unique /\ Range(again) = Range(unique))
        /\ mpc = "repeated" => Range(uniqueRep) = Range(unique)

\* a merge that dropped a record, run again on its output, and run on an input
\* in which the repeated record is not the one kept for its pair
C4_Witness ==
    /\ mergeOp \in {"api_discoverer", "pdf"}
    /\ mpc = "repeated"
    /\ Len(unique) < Len(endpoints)
    /\ repeated[repeatedFrom[2]] \notin Range(unique)
    /\ Len(uniqueRep) >= 2

------------------------------------------------------------------------------
(* A discovery run: APIDiscoverer.discover_apis *)

MaxForms == 2

\* `sub in s` on strings
Contains(s, sub) ==
    \E i \in 1..(Len(s) - Len(sub) + 1) : SubSeq(s, i, i + Len(sub) - 1) = sub

\* the site's base url
BaseUrl == <<"h">>

\* urljoin(base_url, ref) for an absolute ref, a path from the root, or nothing
Urljoin(base, ref) ==
    IF ref = <<>> THEN base
    ELSE IF ref[1] = "/" THEN base \o ref
    ELSE ref

ApiIndicators ==
    {<<"a", "p", "i">>,
     <<"r", "e", "s", "t">>,
     <<"a", "j", "a", "x">>,
     <<"j", "s", "o", "n">>,
     <<"v", "1">>,
     <<"v", "2">>,
     <<"e", "n", "d", "p", "o", "i", "n", "t">>}

\* APIDiscoverer._looks_like_api
LooksLikeApi(url) == \E indicator \in ApiIndicators : Contains(Lower(url), indicator)

\* str.upper() on the method words met here
UpperMethod(m) ==
    CASE m = "get"        -> "GET"
      [] m = "post"       -> "POST"
      [] m = "parameters" -> "PARAMETERS"
      [] m = "dialog"     -> "DIALOG"
      [] m = "see"        -> "SEE"
      [] OTHER            -> m

DiscoverPaths == {<<"/", "a", "p", "i">>, <<"/", "u">>}

\* an entry of a path item of the document: an operation, or the item's shared
\* "parameters" key
OpenapiOps == [path : DiscoverPaths, method : {"get", "post", "parameters"}]

\* a form as WebsiteAnalyzer._parse_forms records it: absolute action, method
\* attribute in upper case ("dialog" is a method attribute of HTML)
Forms == [action : {Urljoin(BaseUrl, p) : p \in DiscoverPaths},
          method : {"GET", "POST", "DIALOG"}]

\* the common api paths tried
CommonApiPaths == <<<<"/", "a", "p", "i">>>>

\* what _extract_api_from_js found in the JavaScript files
JsRecords ==
    {[url |-> Urljoin(BaseUrl, <<"/", "u">>), method |-> "GET", description |-> "js"]}

\* APIDiscoverer._parse_openapi_spec
RECURSIVE ParseOpenapiSpec(_, _)
ParseOpenapiSpec(spec, i) ==
    IF i > Len(spec) THEN <<>>
    ELSE IF UpperMethod(spec[i].method) \in {"GET", "POST", "PUT", "DELETE", "PATCH"}
         THEN <<[url |-> Urljoin(BaseUrl, spec[i].path),
                 method |-> UpperMethod(spec[i].method),
                 description |-> "summary"]>> \o ParseOpenapiSpec(spec, i + 1)
         ELSE ParseOpenapiSpec(spec, i + 1)

\* the forms for which _discover_from_forms builds an endpoint
IsApiForm(form) == form.action # <<>> /\ LooksLikeApi(form.action)

\* HTTPMethod(method) raises ValueError for a word that is no member
FormsRaise(fs) ==
    \E i \in 1..Len(fs) : IsApiForm(fs[i]) /\ UpperMethod(fs[i].method) \notin HTTPMethod

\* APIDiscoverer._discover_from_forms, when no form raises
RECURSIVE DiscoverFromFormsLoop(_, _)
DiscoverFromFormsLoop(fs, i) ==
    IF i > Len(fs) THEN <<>>
    ELSE IF IsApiForm(fs[i])
         THEN <<[url |-> Urljoin(BaseUrl, fs[i].action),
                 method |-> UpperMethod(fs[i].method),
                 description |-> "Form submission endpoint"]>>
              \o DiscoverFromFormsLoop(fs, i + 1)
         ELSE DiscoverFromFormsLoop(fs, i + 1)

\* APIDiscoverer._try_common_paths: a GET record for each path answering 200
RECURSIVE TryCommonPathsLoop(_, _)
TryCommonPathsLoop(ok, i) ==
    IF i > Len(CommonApiPaths) THEN <<>>
    ELSE IF CommonApiPaths[i] \in ok
         THEN <<[url |-> Urljoin(BaseUrl, CommonApiPaths[i]),
                 method |-> "GET",
                 description |-> "Discovered API endpoint"]>>
              \o TryCommonPathsLoop(ok, i + 1)
         ELSE TryCommonPathsLoop(ok, i + 1)

DiscoverInit ==
    /\ openapiSpec \in SeqsUpTo(OpenapiOps, 1)
    /\ forms \in SeqsUpTo(Forms, MaxForms)
    /\ commonOk \in SUBSET Range(CommonApiPaths)
    /\ jsEndpoints \in SeqsUpTo(JsRecords, 1)
    /\ discovered = <<>>
    /\ discovery = <<>>
    /\ dpc = "openapi"
    /\ MergeIdle
    /\ NameIdle
    /\ ParseIdle
    /\ GenIdle
    /\ BatchIdle
    /\ CrawlIdle
    /\ DetectIdle
    /\ InferIdle
    /\ FrameworkIdle
    /\ SpecFilesIdle
    /\ DocsIdle
    /\ ToolsIdle
    /\ CustomIdle
    /\ SessionsIdle
    /\ HttpIdle
    /\ MarkdownIdle
    /\ LocalIdle
    /\ CleanupIdle

\* _find_openapi_spec, and _parse_openapi_spec if a document was found
DiscoverFromOpenapi ==
    /\ dpc = "openapi"
    /\ discovered' = discovered \o ParseOpenapiSpec(openapiSpec, 1)
    /\ dpc' = "forms"
    /\ UNCHANGED <<openapiSpec, forms, commonOk, jsEndpoints, discovery, mergeVars, nameVars,
                   parseVars, genVars, batchVars, crawlVars, detectVars, inferVars,
                   frameworkVars, specVars, docVars, toolsVars, customVars, sessionVars,
                   httpVars, markdownVars, localVars, cleanupVars>>

DiscoverFromForms ==
    /\ dpc = "forms"
    /\ ~FormsRaise(forms)
    /\ discovered' = discovered \o DiscoverFromFormsLoop(forms, 1)
    /\ dpc' = "common"
    /\ UNCHANGED <<openapiSpec, forms, commonOk, jsEndpoints, discovery, mergeVars, nameVars,
                   parseVars, genVars, batchVars, crawlVars, detectVars, inferVars,
                   frameworkVars, specVars, docVars, toolsVars, customVars, sessionVars,
                   httpVars, markdownVars, localVars, cleanupVars>>

\* the ValueError leaves _discover_from_forms and discover_apis
DiscoverFromFormsRaises ==
    /\ dpc = "forms"
    /\ FormsRaise(forms)
    /\ dpc' = "raised"
    /\ UNCHANGED <<openapiSpec, forms, commonOk, jsEndpoints, discovered, discovery, mergeVars,
                   nameVars, parseVars, genVars, batchVars, crawlVars, detectVars, inferVars,
                   frameworkVars, specVars, docVars, toolsVars, customVars, sessionVars,
                   httpVars, markdownVars, localVars, cleanupVars>>

TryCommonPaths ==
    /\ dpc = "common"
    /\ discovered' = discovered \o TryCommonPathsLoop(commonOk, 1)
    /\ dpc' = "js"
    /\ UNCHANGED <<openapiSpec, forms, commonOk, jsEndpoints, discovery, mergeVars, nameVars,
                   parseVars, genVars, batchVars, crawlVars, detectVars, inferVars,
                   frameworkVars, specVars, docVars, toolsVars, customVars, sessionVars,
                   httpVars, markdownVars, localVars, cleanupVars>>

DiscoverFromJavascript ==
    /\ dpc = "js"
    /\ discovered' = discovered \o jsEndpoints
    /\ dpc' = "dedup"
    /\ UNCHANGED <<openapiSpec, forms, commonOk, jsEndpoints, discovery, mergeVars, nameVars,
                   parseVars, genVars, batchVars, crawlVars, detectVars, inferVars,
                   frameworkVars, specVars, docVars, toolsVars, customVars, sessionVars,
                   httpVars, markdownVars, localVars, cleanupVars>>

\* _deduplicate_endpoints and the return of the APIDiscovery
ReturnDiscovery ==
    /\ dpc = "dedup"
    /\ discovery' = DeduplicateEndpoints(discovered)
    /\ dpc' = "done"
    /\ UNCHANGED <<openapiSpec, forms, commonOk, jsEndpoints, discovered, mergeVars, nameVars,
                   parseVars, genVars, batchVars, crawlVars, detectVars, inferVars,
                   frameworkVars, specVars, docVars, toolsVars, customVars, sessionVars,
                   httpVars, markdownVars, localVars, cleanupVars>>

DiscoverNext ==
    \/ DiscoverFromOpenapi
    \/ DiscoverFromForms
    \/ DiscoverFromFormsRaises
    \/ TryCommonPaths
    \/ DiscoverFromJavascript
    \/ ReturnDiscovery

SpecDiscover == DiscoverInit /\ [][DiscoverNext]_vars

\* the records of the sources other than the forms
RecordsOfOtherSources ==
    Range(ParseOpenapiSpec(openapiSpec, 1))
        \cup Range(TryCommonPathsLoop(commonOk, 1))
        \cup Range(jsEndpoints)

\* C9: a run in which one source fails still ends by returning a result, and
\* the result holds every record that the other sources produced.
C9_FailingSourceDoesNotBlock ==
    dpc \in {"done", "raised"} =>
        /\ dpc = "done"
        /\ \A ep \in RecordsOfOtherSources :
              \E r \in Range(discovery) : DedupKey(r) = DedupKey(ep)

------------------------------------------------------------------------------
(* Website crawl: WebsiteAnalyzer.analyze and _crawl_pages, called by two
   requests on the module-level website_analyzer of main.py *)

MaxLinks == 2

max_pages == 10

PriorityKeywords ==
    {<<"a", "p", "i">>,
     <<"d", "o", "c", "s">>,
     <<"d", "o", "c", "u", "m", "e", "n", "t", "a", "t", "i", "o", "n">>,
     <<"d", "e", "v", "e", "l", "o", "p", "e", "r", "s">>,
     <<"d", "e", "v", "e", "l", "o", "p", "e", "r">>,
     <<"g", "e", "t", "-", "s", "t", "a", "r", "t", "e", "d">>,
     <<"g", "e", "t", "t", "i", "n", "g", "-", "s", "t", "a", "r", "t", "e", "d">>,
     <<"s", "t", "a", "r", "t">>,
     <<"g", "u", "i", "d", "e">>,
     <<"t", "u", "t", "o", "r", "i", "a", "l">>,
     <<"r", "e", "f", "e", "r", "e", "n", "c", "e">>,
     <<"s", "w", "a", "g", "g", "e", "r">>,
     <<"o", "p", "e", "n", "a", "p", "i">>,
     <<"r", "e", "s", "t">>,
     <<"g", "r", "a", "p", "h", "q", "l">>,
     <<"s", "d", "k">>,
     <<"c", "l", "i", "e", "n", "t">>,
     <<"l", "i", "b", "r", "a", "r", "y">>,
     <<"i", "n", "t", "e", "g", "r", "a", "t", "i", "o", "n">>,
     <<"w", "e", "b", "h", "o", "o", "k">>,
     <<"a", "u", "t", "h">>,
     <<"a", "u", "t", "h", "e", "n", "t", "i", "c", "a", "t", "i", "o", "n">>,
     <<"o", "a", "u", "t", "h">>,
     <<"j", "w", "t">>,
     <<"t", "o", "k", "e", "n">>,
     <<"e", "n", "d", "p", "o", "i", "n", "t">>,
     <<"e", "n", "d", "p", "o", "i", "n", "t", "s">>,
     <<"v", "1">>,
     <<"v", "2">>,
     <<"v", "3">>,
     <<"b", "e", "t", "a">>}

SiteName(r) == IF r = 1 THEN "a" ELSE "b"

MainUrl(r) == <<SiteName(r), "/">>
GoneUrl(r) == <<SiteName(r), "/", "g", "o", "n", "e">>

\* the same-domain links a main page can hold; a link back to the main page
\* itself (href="/") is one of them
SiteLinks(r) ==
    {MainUrl(r), <<SiteName(r), "/", "a", "p", "i">>, <<SiteName(r), "/", "x">>, GoneUrl(r)}

\* _fetch_page returns None for a url that does not answer 200
Fetchable(url) == \A r \in Runs : url # GoneUrl(r)

\* s[:n]
Take(s, n) == SubSeq(s, 1, IF Len(s) < n THEN Len(s) ELSE n)

\* the elements of s, in order, for which the keyword test gives `wanted`
RECURSIVE FilterPriority(_, _, _)
FilterPriority(links, i, wanted) ==
    IF i > Len(links) THEN <<>>
    ELSE IF (\E keyword \in PriorityKeywords : Contains(Lower(links[i]), keyword)) = wanted
         THEN <<links[i]>> \o FilterPriority(links, i + 1, wanted)
         ELSE FilterPriority(links, i + 1, wanted)

\* WebsiteAnalyzer._find_priority_links
FindPriorityLinks(links) == Take(FilterPriority(links, 1, TRUE), 10)

\* urls_to_visit = priority_links + regular_links
UrlsToVisit(links) ==
    LET priority_links == FindPriorityLinks(links)
        regular == SelectSeq(links, LAMBDA link : link \notin Range(priority_links))
    IN  priority_links \o Take(regular, 3)

\* the loop's `continue`: the first position from i on that is not skipped
RECURSIVE NextToVisit(_, _, _, _)
NextToVisit(urls, i, visited, pgs) ==
    IF i > Len(urls) THEN i
    ELSE IF urls[i] \in visited \/ Len(pgs) >= max_pages
         THEN NextToVisit(urls, i + 1, visited, pgs)
         ELSE i

CrawlInit ==
    /\ visited_urls = {}
    /\ \E m1 \in {MainUrl(1), GoneUrl(1)}, m2 \in {MainUrl(2), GoneUrl(2)} :
          crawlMain = [r \in Runs |-> IF r = 1 THEN m1 ELSE m2]
    /\ \E l1 \in SeqsUpTo(SiteLinks(1), MaxLinks), l2 \in SeqsUpTo(SiteLinks(2), MaxLinks) :
          crawlLinks = [r \in Runs |-> IF r = 1 THEN l1 ELSE l2]
    /\ pages = [r \in Runs |-> <<>>]
    /\ crawlIdx = [r \in Runs |-> 0]
    /\ cpc = [r \in Runs |-> "start"]
    /\ MergeIdle
    /\ NameIdle
    /\ ParseIdle
    /\ GenIdle
    /\ BatchIdle
    /\ DiscoverIdle
    /\ DetectIdle
    /\ InferIdle
    /\ FrameworkIdle
    /\ SpecFilesIdle
    /\ DocsIdle
    /\ ToolsIdle
    /\ CustomIdle
    /\ SessionsIdle
    /\ HttpIdle
    /\ MarkdownIdle
    /\ LocalIdle
    /\ CleanupIdle

\* the loop of _crawl_pages from position i up to its next await, or its end
CrawlFrom(r, i, pgs) ==
    LET urls == UrlsToVisit(crawlLinks[r])
        j == NextToVisit(urls, i, visited_urls, pgs)
    IN  /\ pages' = [pages EXCEPT ![r] = pgs]
        /\ crawlIdx' = [crawlIdx EXCEPT ![r] = j]
        /\ IF j > Len(urls)
           THEN /\ cpc' = [cpc EXCEPT ![r] = "done"]
                /\ UNCHANGED visited_urls
           ELSE /\ visited_urls' = visited_urls \cup {urls[j]}
                /\ cpc' = [cpc EXCEPT ![r] = "fetch"]

\* analyze up to its first await: self.visited_urls.clear()
Analyze(r) ==
    /\ cpc[r] = "start"
    /\ visited_urls' = {}
    /\ cpc' = [cpc EXCEPT ![r] = "fetch_main"]
    /\ UNCHANGED <<crawlMain, crawlLinks, pages, crawlIdx, mergeVars, nameVars, parseVars,
                   genVars, batchVars, discoverVars, detectVars, inferVars, frameworkVars,
                   specVars, docVars, toolsVars, customVars, sessionVars, httpVars,
                   markdownVars, localVars, cleanupVars>>

\* the main page arrives: analyze raises without it, else _crawl_pages starts
MainPageFetched(r) ==
    /\ cpc[r] = "fetch_main"
    /\ IF Fetchable(crawlMain[r])
       THEN CrawlFrom(r, 1, <<crawlMain[r]>>)
       ELSE /\ cpc' = [cpc EXCEPT ![r] = "failed"]
            /\ UNCHANGED <<visited_urls, pages, crawlIdx>>
    /\ UNCHANGED <<crawlMain, crawlLinks, mergeVars, nameVars, parseVars, genVars, batchVars,
                   discoverVars, detectVars, inferVars, frameworkVars, specVars, docVars,
                   toolsVars, customVars, sessionVars, httpVars, markdownVars, localVars,
                   cleanupVars>>

\* the awaited page arrives: it is appended if it was fetched, and the loop goes on
PageFetched(r) ==
    /\ cpc[r] = "fetch"
    /\ LET url == UrlsToVisit(crawlLinks[r])[crawlIdx[r]]
       IN  CrawlFrom(r, crawlIdx[r] + 1,
                     IF Fetchable(url) THEN Append(pages[r], url) ELSE pages[r])
    /\ UNCHANGED <<crawlMain, crawlLinks, mergeVars, nameVars, parseVars, genVars, batchVars,
                   discoverVars, detectVars, inferVars, frameworkVars, specVars, docVars,
                   toolsVars, customVars, sessionVars, httpVars, markdownVars, localVars,
                   cleanupVars>>

CrawlNext == \E r \in Runs : Analyze(r) \/ MainPageFetched(r) \/ PageFetched(r)

SpecCrawl == CrawlInit /\ [][CrawlNext]_vars

NoRepeat(s) == \A i, j \in 1..Len(s) : s[i] = s[j] => i = j

\* C27: within one analyze call (no other request running on the analyzer) the
\* page list never holds two pages with the same url, the main page's url
\* included, and never holds more than max_pages pages.
C27_PagesDistinctAndBounded ==
    \A r \in Runs :
        (\A q \in Runs \ {r} : cpc[q] = "start")
            => /\ NoRepeat(pages[r])
               /\ Len(pages[r]) <= max_pages

\* the pages of a run of _crawl_pages that no other run interleaves with
RECURSIVE CrawlAlone(_, _, _, _)
CrawlAlone(urls, i, visited, pgs) ==
    IF i > Len(urls) THEN pgs
    ELSE IF urls[i] \in visited \/ Len(pgs) >= max_pages
         THEN CrawlAlone(urls, i + 1, visited, pgs)
         ELSE CrawlAlone(urls, i + 1, visited \cup {urls[i]},
                         IF Fetchable(urls[i]) THEN Append(pgs, urls[i]) ELSE pgs)

\* C10: a run that executes concurrently with another run, over another site,
\* returns exactly the pages it would return if it ran alone.
C10_RunsReturnTheirAloneResult ==
    \A r \in Runs :
        cpc[r] = "done" =>
            pages[r] = CrawlAlone(UrlsToVisit(crawlLinks[r]), 1, {}, <<crawlMain[r]>>)

------------------------------------------------------------------------------
(* Format detection: JSONAnalyzer._detect_json_format *)

\* JSON values: a missing key, a string, a number, null, an object, an array
JAbsent == [t |-> "absent"]
JStr(s) == [t |-> "str", s |-> s]
JNum == [t |-> "num"]
JNull == [t |-> "null"]
JObject(keys) == [t |-> "dict", keys |-> keys]
JList(items) == [t |-> "list", items |-> items]

Str3 == <<"3", ".", "0">>
Str2 == <<"2", ".", "0">>
KeyOpenapi == <<"o", "p", "e", "n", "a", "p", "i">>
KeySwagger == <<"s", "w", "a", "g", "g", "e", "r">>
KeyInfo == <<"i", "n", "f", "o">>
KeyItem == <<"i", "t", "e", "m">>
KeyResources == <<"r", "e", "s", "o", "u", "r", "c", "e", "s">>
KeyEndpoints == <<"e", "n", "d", "p", "o", "i", "n", "t", "s">>
KeyApis == <<"a", "p", "i", "s">>
KeyRoutes == <<"r", "o", "u", "t", "e", "s">>
KeySchema == <<"s", "c", "h", "e", "m", "a">>
KeyType == <<"_", "t", "y", "p", "e">>
KeyPath == <<"p", "a", "t", "h">>
KeyUrl == <<"u", "r", "l">>
KeyMethod == <<"m", "e", "t", "h", "o", "d">>

\* the entries of a resources array or of a top-level array
ArrayItems ==
    {JObject({KeyType}), JObject({}), JObject({KeyPath}), JObject({KeyUrl}),
     JObject({KeyMethod}), JStr(KeyOpenapi), JStr(KeyResources), JStr(KeyEndpoints)}

\* top-level objects, by the value under each key the rules look at
TopObjects ==
    [t : {"object"},
     openapi : {JAbsent, JStr(Str3), JStr(Str2), JNum},
     swagger : {JAbsent, JStr(Str2), JNum},
     info : {JAbsent, JObject({KeySchema}), JObject({}), JStr(Str2)},
     item : {JAbsent, JList(<<>>)},
     resources : {JAbsent, JObject({})} \cup {JList(<<i>>) : i \in {JObject({KeyType}), JObject({})}},
     endpoints : {JAbsent, JList(<<>>)},
     routes : {JAbsent, JList(<<>>)}]

TopArrays == {JList(<<>>)} \cup {JList(<<i>>) : i \in ArrayItems}

TopScalars == {JNum, JNull, JStr(Str2), JStr(KeyOpenapi), JStr(KeyEndpoints)}

JsonValues == TopObjects \cup TopArrays \cup TopScalars

\* s.startswith(prefix)
StartsWith(s, prefix) == Len(s) >= Len(prefix) /\ SubSeq(s, 1, Len(prefix)) = prefix

\* the value of a top-level object under a key
ValueAt(doc, key) ==
    CASE key = KeyOpenapi   -> doc.openapi
      [] key = KeySwagger   -> doc.swagger
      [] key = KeyInfo      -> doc.info
      [] key = KeyItem      -> doc.item
      [] key = KeyResources -> doc.resources
      [] key = KeyEndpoints -> doc.endpoints
      [] key = KeyRoutes    -> doc.routes
      [] OTHER              -> JAbsent

\* `key in json_data`, where json_data is an object, an array or a string: a
\* key of the object, an element of the array, a substring of the string
In(key, doc) ==
    CASE doc.t = "object" -> ValueAt(doc, key) # JAbsent
      [] doc.t = "list"   -> \E i \in 1..Len(doc.items) : doc.items[i] = JStr(key)
      [] doc.t = "str"    -> Contains(doc.s, key)

\* each rule gives its format, "raised", or "next" when it does not match

\* "openapi" in json_data and json_data.get("openapi", "").startswith("3.")
RuleOpenapi(doc) ==
    IF ~In(KeyOpenapi, doc) THEN "next"
    ELSE IF doc.t # "object" THEN "raised"
    ELSE IF doc.openapi.t # "str" THEN "raised"
    ELSE IF StartsWith(doc.openapi.s, <<"3", ".">>) THEN "openapi"
    ELSE "next"

\* "swagger" in json_data and json_data.get("swagger") == "2.0"
RuleSwagger(doc) ==
    IF ~In(KeySwagger, doc) THEN "next"
    ELSE IF doc.t # "object" THEN "raised"
    ELSE IF doc.swagger = JStr(Str2) THEN "swagger"
    ELSE "next"

\* "info" in json_data and "item" in json_data
\*     and json_data.get("info", {}).get("schema")
RulePostman(doc) ==
    IF ~In(KeyInfo, doc) \/ ~In(KeyItem, doc) THEN "next"
    ELSE IF doc.t # "object" THEN "raised"
    ELSE IF doc.info.t # "dict" THEN "raised"
    ELSE IF KeySchema \in doc.info.keys THEN "postman"
    ELSE "next"

\* "resources" in json_data and isinstance(json_data["resources"], list)
RuleInsomnia(doc) ==
    IF ~In(KeyResources, doc) THEN "next"
    ELSE IF doc.t # "object" THEN "raised"
    ELSE IF doc.resources.t = "list" THEN "insomnia"
    ELSE "next"

\* "endpoints" in json_data or "apis" in json_data or "routes" in json_data
RuleCustomKeys(doc) ==
    IF In(KeyEndpoints, doc) \/ In(KeyApis, doc) \/ In(KeyRoutes, doc)
    THEN "custom_endpoints"
    ELSE "next"

\* a list whose first item is a dict with a path, url or method key
RuleCustomList(doc) ==
    IF /\ doc.t = "list"
       /\ Len(doc.items) > 0
       /\ doc.items[1].t = "dict"
       /\ doc.items[1].keys \cap {KeyPath, KeyUrl, KeyMethod} # {}
    THEN "custom_endpoints"
    ELSE "next"

\* JSONAnalyzer._detect_json_format; `in` on a number or null raises TypeError
DetectJsonFormat(doc) ==
    IF doc.t \in {"num", "null"} THEN "raised"
    ELSE IF RuleOpenapi(doc) # "next" THEN RuleOpenapi(doc)
    ELSE IF RuleSwagger(doc) # "next" THEN RuleSwagger(doc)
    ELSE IF RulePostman(doc) # "next" THEN RulePostman(doc)
    ELSE IF RuleInsomnia(doc) # "next" THEN RuleInsomnia(doc)
    ELSE IF RuleCustomKeys(doc) # "next" THEN RuleCustomKeys(doc)
    ELSE IF RuleCustomList(doc) # "next" THEN RuleCustomList(doc)
    ELSE "generic"

DetectInit ==
    /\ jsonData \in JsonValues
    /\ detected = "none"
    /\ MergeIdle
    /\ NameIdle
    /\ ParseIdle
    /\ GenIdle
    /\ BatchIdle
    /\ DiscoverIdle
    /\ CrawlIdle
    /\ InferIdle
    /\ FrameworkIdle
    /\ SpecFilesIdle
    /\ DocsIdle
    /\ ToolsIdle
    /\ CustomIdle
    /\ SessionsIdle
    /\ HttpIdle
    /\ MarkdownIdle
    /\ LocalIdle
    /\ CleanupIdle

\* analyze_json's call of _detect_json_format on the parsed value
DetectFormat ==
    /\ detected = "none"
    /\ detected' = DetectJsonFormat(jsonData)
    /\ UNCHANGED <<jsonData, mergeVars, nameVars, parseVars, genVars, batchVars, discoverVars,
                   crawlVars, inferVars, frameworkVars, specVars, docVars, toolsVars,
                   customVars, sessionVars, httpVars, markdownVars, localVars, cleanupVars>>

DetectNext == DetectFormat

SpecDetect == DetectInit /\ [][DetectNext]_vars

JsonFormats == {"openapi", "swagger", "postman", "insomnia", "custom_endpoints", "generic"}

\* C12: for every parsed JSON value, object, array or scalar, with values of
\* any type under its keys, detection returns one of the six formats and does
\* not raise.
C12_DetectionTotal ==
    detected # "none" => detected \in JsonFormats

\* the entries of a resources array carry a _type discriminator
ResourcesCarryType(doc) ==
    /\ doc.t = "object"
    /\ doc.resources.t = "list"
    /\ \A i \in 1..Len(doc.resources.items) :
          /\ doc.resources.items[i].t = "dict"
          /\ KeyType \in doc.resources.items[i].keys

\* C13: a document is classified as the Insomnia-like export only when its
\* resources array has entries that carry a _type discriminator.
C13_InsomniaOnlyWithType ==
    detected = "insomnia" => ResourcesCarryType(jsonData)

------------------------------------------------------------------------------
(* Source inference: EnhancedAPIAnalyzer._determine_parameter_source_enhanced *)

NameRequest == <<"r", "e", "q", "u", "e", "s", "t">>
NameReq == <<"r", "e", "q">>

\* the text of a parameter's default value, <<>> if it has none
DefaultValues ==
    {<<>>, <<"Q", "u", "e", "r", "y", "(", "1", ")">>, <<"H", "e", "a", "d", "e", "r", "(", "1", ")">>, <<"C", "o", "o", "k", "i", "e", "(", "1", ")">>, <<"F", "o", "r", "m", "(", "1", ")">>,
     <<"P", "a", "t", "h", "(", "1", ")">>, <<"B", "o", "d", "y", "(", "1", ")">>, <<"1">>}

\* the text of a parameter's annotation, <<>> if it has none
TypeHints ==
    {<<>>, <<"F", "o", "r", "m">>, <<"H", "e", "a", "d", "e", "r">>, <<"Q", "u", "e", "r", "y">>, <<"P", "a", "t", "h">>, <<"B", "o", "d", "y">>, <<"D", "e", "p", "e", "n", "d", "s">>, <<"i", "n", "t">>}

\* the attributes read from the parameter in the function body
UsedAttrs == {"json", "args", "headers", "files"}

HandlerParams ==
    [name : {NameA, NameX, NameRequest, NameReq},
     path_params : SUBSET {NameA},
     default : DefaultValues,
     used : SUBSET UsedAttrs,
     hint : TypeHints,
     method : HTTPMethod]

\* the chain over the text of the default value
SourceOfDefault(default_value) ==
    CASE Contains(default_value, <<"Q", "u", "e", "r", "y", "(">>)  -> "query"
      [] Contains(default_value, <<"H", "e", "a", "d", "e", "r", "(">>) -> "header"
      [] Contains(default_value, <<"C", "o", "o", "k", "i", "e", "(">>) -> "cookie"
      [] Contains(default_value, <<"F", "o", "r", "m", "(">>)   -> "form"
      [] Contains(default_value, <<"P", "a", "t", "h", "(">>)   -> "path"
      [] Contains(default_value, <<"B", "o", "d", "y", "(">>)   -> "body"
      [] OTHER -> "next"

\* _parameter_used_in_request_body, _as_query_param, _as_header_param, _as_form_param
SourceOfUsage(used) ==
    CASE used \cap {"json", "data", "body"} # {}     -> "body"
      [] used \cap {"query", "params", "args"} # {}  -> "query"
      [] used \cap {"headers", "header"} # {}        -> "header"
      [] used \cap {"form", "files"} # {}            -> "form"
      [] OTHER -> "next"

\* the chain over the text of the annotation
SourceOfHint(param_type) ==
    CASE Contains(param_type, <<"F", "o", "r", "m">>)   -> "form"
      [] Contains(param_type, <<"H", "e", "a", "d", "e", "r">>) -> "header"
      [] Contains(param_type, <<"Q", "u", "e", "r", "y">>)  -> "query"
      [] Contains(param_type, <<"P", "a", "t", "h">>)   -> "path"
      [] Contains(param_type, <<"B", "o", "d", "y">>) \/ Contains(param_type, <<"D", "e", "p", "e", "n", "d", "s">>) -> "body"
      [] OTHER -> "next"

SourceOfMethod(method) == IF method \in {"GET", "DELETE"} THEN "query" ELSE "body"

\* the same rules with the annotation looked at before the default value
DetermineSourceHintFirst(p) ==
    IF p.name \in p.path_params THEN "path"
    ELSE IF p.name \in {NameRequest, NameReq} THEN "body"
    ELSE IF p.hint # <<>> /\ SourceOfHint(p.hint) # "next" THEN SourceOfHint(p.hint)
    ELSE IF p.default # <<>> /\ SourceOfDefault(p.default) # "next"
         THEN SourceOfDefault(p.default)
    ELSE IF SourceOfUsage(p.used) # "next" THEN SourceOfUsage(p.used)
    ELSE SourceOfMethod(p.method)

\* EnhancedAPIAnalyzer._determine_parameter_source_enhanced
DetermineParameterSource(p) ==
    IF p.name \in p.path_params THEN "path"
    ELSE IF p.name \in {NameRequest, NameReq} THEN "body"
    ELSE IF p.default # <<>> /\ SourceOfDefault(p.default) # "next"
         THEN SourceOfDefault(p.default)
    ELSE IF SourceOfUsage(p.used) # "next" THEN SourceOfUsage(p.used)
    ELSE IF p.hint # <<>> /\ SourceOfHint(p.hint) # "next" THEN SourceOfHint(p.hint)
    ELSE SourceOfMethod(p.method)

InferInit ==
    /\ handlerParam \in HandlerParams
    /\ paramSource = "none"
    /\ MergeIdle
    /\ NameIdle
    /\ ParseIdle
    /\ GenIdle
    /\ BatchIdle
    /\ DiscoverIdle
    /\ CrawlIdle
    /\ DetectIdle
    /\ FrameworkIdle
    /\ SpecFilesIdle
    /\ DocsIdle
    /\ ToolsIdle
    /\ CustomIdle
    /\ SessionsIdle
    /\ HttpIdle
    /\ MarkdownIdle
    /\ LocalIdle
    /\ CleanupIdle

\* the call made for each argument of a handler
DetermineSource ==
    /\ paramSource = "none"
    /\ paramSource' = DetermineParameterSource(handlerParam)
    /\ UNCHANGED <<handlerParam, mergeVars, nameVars, parseVars, genVars, batchVars,
                   discoverVars, crawlVars, detectVars, frameworkVars, specVars, docVars,
                   toolsVars, customVars, sessionVars, httpVars, markdownVars, localVars,
                   cleanupVars>>

InferNext == DetermineSource

SpecInfer == InferInit /\ [][InferNext]_vars

\* the sources that rule number k allows for p; {} when the rule does not apply
RuleSources(k, p) ==
    CASE k = 1 -> IF p.name \in p.path_params THEN {"path"} ELSE {}
      [] k = 2 -> IF p.name \in {NameRequest, NameReq} THEN {"body"} ELSE {}
      [] k = 3 -> {SourceOfDefault(p.default)} \ {"next"}
      [] k = 4 -> {SourceOfUsage({a}) : a \in p.used} \ {"next"}
      [] k = 5 -> {SourceOfHint(p.hint)} \ {"next"}
      [] k = 6 -> {SourceOfMethod(p.method)}

FirstApplicableRule(p) == CHOOSE k \in 1..6 :
    /\ RuleSources(k, p) # {}
    /\ \A j \in 1..(k - 1) : RuleSources(j, p) = {}

\* C15: the inferred source is one that the first applicable rule gives, in the
\* order placeholder, request name, marker default, usage in the body, marker
\* annotation, method fallback; a later rule never overrides an earlier match.
C15_FirstApplicableRuleDecides ==
    paramSource # "none" =>
        paramSource \in RuleSources(FirstApplicableRule(handlerParam), handlerParam)

\* a parameter with a header marker as default, read through .json in the
\* body and annotated with a query marker
C15_Witness ==
    /\ paramSource = "header"
    /\ handlerParam.name = NameX
    /\ SourceOfDefault(handlerParam.default) = "header"
    /\ handlerParam.used = {"json"}
    /\ SourceOfHint(handlerParam.hint) = "query"

------------------------------------------------------------------------------
(* Framework detection: EnhancedAPIAnalyzer._detect_javascript_framework *)

MaxOccurrences == 2

\* framework_indicators, in the dict's order, with some of each framework's
\* indicators
FrameworkIndicators ==
    <<[framework |-> "express", indicators |-> {"app.use", "router.post"}],
      [framework |-> "koa",     indicators |-> {"koa-router"}],
      [framework |-> "hapi",    indicators |-> {"server.route"}],
      [framework |-> "nestjs",  indicators |-> {"nestjs/core"}],
      [framework |-> "fastify", indicators |-> {"fastify()"}]>>

Indicators == UNION {FrameworkIndicators[i].indicators : i \in 1..Len(FrameworkIndicators)}

DefaultFramework == "express"

\* sum(1 for indicator in indicators if indicator in content_lower)
Score(occ, i) == Cardinality({ind \in FrameworkIndicators[i].indicators : occ[ind] > 0})

\* max(framework_scores.items(), key=score): the first entry, in the dict's
\* order, among those with the highest score
DetectJavascriptFramework(occ) ==
    LET scored == {i \in 1..Len(FrameworkIndicators) : Score(occ, i) > 0}
        best == {i \in scored : \A j \in scored : Score(occ, j) <= Score(occ, i)}
    IN  IF scored = {} THEN DefaultFramework
        ELSE FrameworkIndicators[CHOOSE i \in best : \A j \in best : i <= j].framework

\* the branch of _analyze_javascript_file that picks the patterns
PatternTable(fw) == IF fw \in {"express", "koa", "hapi", "nestjs"} THEN fw ELSE "generic"

FrameworkInit ==
    /\ occurrences \in [Indicators -> 0..MaxOccurrences]
    /\ framework = "none"
    /\ MergeIdle
    /\ NameIdle
    /\ ParseIdle
    /\ GenIdle
    /\ BatchIdle
    /\ DiscoverIdle
    /\ CrawlIdle
    /\ DetectIdle
    /\ InferIdle
    /\ SpecFilesIdle
    /\ DocsIdle
    /\ ToolsIdle
    /\ CustomIdle
    /\ SessionsIdle
    /\ HttpIdle
    /\ MarkdownIdle
    /\ LocalIdle
    /\ CleanupIdle

\* _analyze_javascript_file's call of _detect_javascript_framework
DetectFramework ==
    /\ framework = "none"
    /\ framework' = DetectJavascriptFramework(occurrences)
    /\ UNCHANGED <<occurrences, mergeVars, nameVars, parseVars, genVars, batchVars,
                   discoverVars, crawlVars, detectVars, inferVars, specVars, docVars,
                   toolsVars, customVars, sessionVars, httpVars, markdownVars, localVars,
                   cleanupVars>>

FrameworkNext == DetectFramework

SpecFramework == FrameworkInit /\ [][FrameworkNext]_vars

\* the sum of the occurrences of the indicators in inds
RECURSIVE SumOccurrences(_, _)
SumOccurrences(occ, inds) ==
    IF inds = {} THEN 0
    ELSE LET ind == CHOOSE x \in inds : TRUE
         IN  occ[ind] + SumOccurrences(occ, inds \ {ind})

WeightedScore(occ, i) == SumOccurrences(occ, FrameworkIndicators[i].indicators)

\* C16: the framework selected is the one whose indicators, weighted by their
\* number of occurrences, score highest; when two or more frameworks tie for
\* the highest score, or no indicator occurs, it is the default framework.
C16_HighestWeightedScoreOrDefault ==
    framework # "none" =>
        LET all == 1..Len(FrameworkIndicators)
            best == {i \in all : \A j \in all :
                        WeightedScore(occurrences, j) <= WeightedScore(occurrences, i)}
        IN  IF Cardinality(best) = 1
            THEN \A i \in best : framework = FrameworkIndicators[i].framework
            ELSE framework = DefaultFramework

------------------------------------------------------------------------------
(* Specification files of a repository: GitHubAnalyzer._parse_api_spec, called
   for each file that the walk of the repository finds *)

MaxSpecFiles == 2

\* a specification file: whether json.loads / yaml.safe_load accepts its text,
\* and the operations written in it
SpecFiles == [parses : BOOLEAN, ops : SeqsUpTo(OpenapiOps, 1)]

\* GitHubAnalyzer._extract_endpoints_from_openapi
RECURSIVE ExtractEndpointsFromOpenapi(_, _)
ExtractEndpointsFromOpenapi(ops, i) ==
    IF i > Len(ops) THEN <<>>
    ELSE IF UpperMethod(ops[i].method) \in {"GET", "POST", "PUT", "DELETE", "PATCH"}
         THEN <<[url |-> ops[i].path,
                 method |-> UpperMethod(ops[i].method),
                 description |-> "summary"]>> \o ExtractEndpointsFromOpenapi(ops, i + 1)
         ELSE ExtractEndpointsFromOpenapi(ops, i + 1)

\* a parser that reads the operations of a text it cannot load
ParseApiSpecLenient(file) == ExtractEndpointsFromOpenapi(file.ops, 1)

\* GitHubAnalyzer._parse_api_spec: what it adds to analysis['api_endpoints'];
\* the exception of the loader is caught and logged
ParseApiSpec(file) ==
    IF file.parses THEN ExtractEndpointsFromOpenapi(file.ops, 1) ELSE <<>>

SpecFilesInit ==
    /\ specFiles \in SeqsUpTo(SpecFiles, MaxSpecFiles)
    /\ specPos = 1
    /\ apiEndpoints = <<>>
    /\ spc = "walk"
    /\ MergeIdle
    /\ NameIdle
    /\ ParseIdle
    /\ GenIdle
    /\ BatchIdle
    /\ DiscoverIdle
    /\ CrawlIdle
    /\ DetectIdle
    /\ InferIdle
    /\ FrameworkIdle
    /\ DocsIdle
    /\ ToolsIdle
    /\ CustomIdle
    /\ SessionsIdle
    /\ HttpIdle
    /\ MarkdownIdle
    /\ LocalIdle
    /\ CleanupIdle

\* one file of the walk: read it and call _parse_api_spec
ParseNextSpecFile ==
    /\ spc = "walk"
    /\ specPos <= Len(specFiles)
    /\ apiEndpoints' = apiEndpoints \o ParseApiSpec(specFiles[specPos])
    /\ specPos' = specPos + 1
    /\ UNCHANGED <<specFiles, spc, mergeVars, nameVars, parseVars, genVars, batchVars,
                   discoverVars, crawlVars, detectVars, inferVars, frameworkVars, docVars,
                   toolsVars, customVars, sessionVars, httpVars, markdownVars, localVars,
                   cleanupVars>>

\* the walk is over
SpecFilesDone ==
    /\ spc = "walk"
    /\ specPos > Len(specFiles)
    /\ spc' = "done"
    /\ UNCHANGED <<specFiles, specPos, apiEndpoints, mergeVars, nameVars, parseVars, genVars,
                   batchVars, discoverVars, crawlVars, detectVars, inferVars, frameworkVars,
                   docVars, toolsVars, customVars, sessionVars, httpVars, markdownVars,
                   localVars, cleanupVars>>

SpecFilesNext == ParseNextSpecFile \/ SpecFilesDone

SpecSpecFiles == SpecFilesInit /\ [][SpecFilesNext]_vars

\* the records of the files of fs, from position i on, that can be loaded
RECURSIVE RecordsOfParseable(_, _)
RecordsOfParseable(fs, i) ==
    IF i > Len(fs) THEN <<>>
    ELSE (IF fs[i].parses THEN ExtractEndpointsFromOpenapi(fs[i].ops, 1) ELSE <<>>)
         \o RecordsOfParseable(fs, i + 1)

\* C17: a file that cannot be parsed contributes no record, and the run goes on
\* with the files after it: at every step the records are exactly those of the
\* parseable files handled so far, and the run does not end in an error.
C17_UnparseableContributesNothing ==
    /\ spc \in {"walk", "done"}
    /\ apiEndpoints = RecordsOfParseable(SubSeq(specFiles, 1, specPos - 1), 1)

\* the walk ended after an unparseable file holding an operation, followed by a
\* parseable file whose record was added
C17_Witness ==
    /\ spc = "done"
    /\ Len(specFiles) = 2
    /\ ~specFiles[1].parses
    /\ ExtractEndpointsFromOpenapi(specFiles[1].ops, 1) # <<>>
    /\ specFiles[2].parses
    /\ apiEndpoints = ExtractEndpointsFromOpenapi(specFiles[2].ops, 1)
    /\ apiEndpoints # <<>>

------------------------------------------------------------------------------
(* Endpoints from documentation text: GitHubAnalyzer._extract_apis_from_docs
   and PDFAnalyzer._extract_api_endpoints *)

MaxMatches == 2

\* the words a case-insensitive ([A-Z]+) captures in front of a path: a method
\* in either case, or a word of the prose ("see /api")
DocWords == {"GET", "post", "see"}

\* the second group of a match
DocPaths ==
    {<<"/", "a", "p", "i">>,
     <<"/", "r", "a", "p", "i", "d">>,
     <<"/", "u">>,
     <<"/", "u", ".">>,
     <<"a", "p", "i">>,
     <<"/", "a", "p", "i", ".", "j", "s">>}

\* the two-group matches of the patterns, in the order the loops meet them
RawMatches == [method : DocWords, path : DocPaths]

\* ['api', 'rest', 'v1', 'v2', 'endpoint']
ApiWords ==
    {<<"a", "p", "i">>,
     <<"r", "e", "s", "t">>,
     <<"v", "1">>,
     <<"v", "2">>,
     <<"e", "n", "d", "p", "o", "i", "n", "t">>}

\* path.startswith('/') and any(api_word in path.lower() for api_word in [...])
DocAccepts(path) ==
    /\ StartsWith(path, <<"/">>)
    /\ \E api_word \in ApiWords : Contains(Lower(path), api_word)

\* found_endpoints: the accepted (method, path) tuples
RECURSIVE FoundEndpoints(_, _)
FoundEndpoints(ms, i) ==
    IF i > Len(ms) THEN <<>>
    ELSE (IF DocAccepts(ms[i].path)
          THEN <<[method |-> UpperMethod(ms[i].method), path |-> ms[i].path]>>
          ELSE <<>>) \o FoundEndpoints(ms, i + 1)

DocRecord(method, path) == [url |-> path, method |-> method]

\* path.rstrip('.,;:"')
RECURSIVE RStripPunct(_)
RStripPunct(s) ==
    IF s # <<>> /\ s[Len(s)] \in {".", ",", ";", ":", "\""}
    THEN RStripPunct(SubSeq(s, 1, Len(s) - 1))
    ELSE s

EndsWith(s, suffix) ==
    Len(s) >= Len(suffix) /\ SubSeq(s, Len(s) - Len(suffix) + 1, Len(s)) = suffix

\* \.(html?|css|js|png|jpg|jpeg|gif|pdf)$
FileExtensions ==
    {<<".", "h", "t", "m">>, <<".", "h", "t", "m", "l">>, <<".", "c", "s", "s">>,
     <<".", "j", "s">>, <<".", "p", "n", "g">>, <<".", "j", "p", "g">>,
     <<".", "j", "p", "e", "g">>, <<".", "g", "i", "f">>, <<".", "p", "d", "f">>}

\* ^/static/, ^/assets/, ^/public/
StaticPrefixes ==
    {<<"/", "s", "t", "a", "t", "i", "c", "/">>,
     <<"/", "a", "s", "s", "e", "t", "s", "/">>,
     <<"/", "p", "u", "b", "l", "i", "c", "/">>}

\* PDFAnalyzer._is_valid_api_path
IsValidApiPath(path) ==
    /\ StartsWith(path, <<"/">>)
    /\ Len(path) >= 2
    /\ Len(path) <= 200
    /\ ~ \E ext \in FileExtensions : EndsWith(Lower(path), ext)
    /\ ~ \E pre \in StaticPrefixes : StartsWith(Lower(path), pre)

\* (GET|POST|PUT|DELETE|PATCH) under re.IGNORECASE
PdfMethodWords == {"GET", "POST", "PUT", "DELETE", "PATCH"}

\* ord() of the characters of DocPaths
CharOrd(c) ==
    CASE c = "."  -> 46
      [] c = "/"  -> 47
      [] c = "a"  -> 97
      [] c = "d"  -> 100
      [] c = "i"  -> 105
      [] c = "j"  -> 106
      [] c = "p"  -> 112
      [] c = "r"  -> 114
      [] c = "s"  -> 115
      [] c = "u"  -> 117
      [] OTHER    -> 0

\* a < b on strings
RECURSIVE StrLess(_, _)
StrLess(a, b) ==
    IF b = <<>> THEN FALSE
    ELSE IF a = <<>> THEN TRUE
    ELSE IF a[1] = b[1] THEN StrLess(Tail(a), Tail(b))
    ELSE CharOrd(a[1]) < CharOrd(b[1])

\* endpoints.sort(key=lambda x: x.url): a stable insertion of x into sorted acc
RECURSIVE PdfSortedInsert(_, _, _)
PdfSortedInsert(acc, x, k) ==
    IF k > Len(acc) THEN Append(acc, x)
    ELSE IF StrLess(x.url, acc[k].url) THEN InsertAt(acc, k, x)
         ELSE PdfSortedInsert(acc, x, k + 1)

RECURSIVE PdfSort(_, _, _)
PdfSort(eps, i, acc) ==
    IF i > Len(eps) THEN acc ELSE PdfSort(eps, i + 1, PdfSortedInsert(acc, eps[i], 1))

\* the loop over the matches of PDFAnalyzer._extract_api_endpoints
RECURSIVE PdfMatchLoop(_, _, _)
PdfMatchLoop(ms, i, acc) ==
    IF i > Len(ms) THEN acc
    ELSE LET method_str == UpperMethod(ms[i].method)
             path == RStripPunct(ms[i].path)
         IN  IF method_str \notin PdfMethodWords THEN PdfMatchLoop(ms, i + 1, acc)
             ELSE IF method_str \notin HTTPMethod THEN PdfMatchLoop(ms, i + 1, acc)
             ELSE IF ~ IsValidApiPath(path) THEN PdfMatchLoop(ms, i + 1, acc)
             ELSE IF \E k \in 1..Len(acc) : acc[k].url = path /\ acc[k].method = method_str
                  THEN PdfMatchLoop(ms, i + 1, acc)
             ELSE PdfMatchLoop(ms, i + 1, Append(acc, DocRecord(method_str, path)))

PdfExtractApiEndpoints(ms) == PdfSort(PdfMatchLoop(ms, 1, <<>>), 1, <<>>)

DocsInit ==
    /\ docMatches \in SeqsUpTo(RawMatches, MaxMatches)
    /\ unique_endpoints = {}
    /\ docEndpoints = <<>>
    /\ docpc = "start"
    /\ MergeIdle
    /\ NameIdle
    /\ ParseIdle
    /\ GenIdle
    /\ BatchIdle
    /\ DiscoverIdle
    /\ CrawlIdle
    /\ DetectIdle
    /\ InferIdle
    /\ FrameworkIdle
    /\ SpecFilesIdle
    /\ ToolsIdle
    /\ CustomIdle
    /\ SessionsIdle
    /\ HttpIdle
    /\ MarkdownIdle
    /\ LocalIdle
    /\ CleanupIdle

\* _extract_apis_from_docs up to unique_endpoints = list(set(found_endpoints))
CollectFromDocs ==
    /\ docpc = "start"
    /\ unique_endpoints' = Range(FoundEndpoints(docMatches, 1))
    /\ docpc' = "emit"
    /\ UNCHANGED <<docMatches, docEndpoints, mergeVars, nameVars, parseVars, genVars,
                   batchVars, discoverVars, crawlVars, detectVars, inferVars,
                   frameworkVars, specVars, toolsVars, customVars, sessionVars, httpVars,
                   markdownVars, localVars, cleanupVars>>

\* one turn of the loop over unique_endpoints, whose order is that of a set:
\* HTTPMethod(method) accepts the word and the record is appended
EmitFromDocs ==
    /\ docpc = "emit"
    /\ \E e \in unique_endpoints :
          /\ e.method \in HTTPMethod
          /\ docEndpoints' = Append(docEndpoints, DocRecord(e.method, e.path))
          /\ unique_endpoints' = unique_endpoints \ {e}
    /\ UNCHANGED <<docMatches, docpc, mergeVars, nameVars, parseVars, genVars,
                   batchVars, discoverVars, crawlVars, detectVars, inferVars,
                   frameworkVars, specVars, toolsVars, customVars, sessionVars, httpVars,
                   markdownVars, localVars, cleanupVars>>

\* one turn of the loop: HTTPMethod(method) raises ValueError, which the except
\* clause around the whole body catches; the loop is left
RaiseFromDocs ==
    /\ docpc = "emit"
    /\ \E e \in unique_endpoints : e.method \notin HTTPMethod
    /\ docpc' = "failed"
    /\ UNCHANGED <<docMatches, unique_endpoints, docEndpoints, mergeVars, nameVars,
                   parseVars, genVars, batchVars, discoverVars, crawlVars, detectVars,
                   inferVars, frameworkVars, specVars, toolsVars, customVars, sessionVars,
                   httpVars, markdownVars, localVars, cleanupVars>>

\* the loop over unique_endpoints ends
DocsDone ==
    /\ docpc = "emit"
    /\ unique_endpoints = {}
    /\ docpc' = "done"
    /\ UNCHANGED <<docMatches, unique_endpoints, docEndpoints, mergeVars, nameVars,
                   parseVars, genVars, batchVars, discoverVars, crawlVars, detectVars,
                   inferVars, frameworkVars, specVars, toolsVars, customVars, sessionVars,
                   httpVars, markdownVars, localVars, cleanupVars>>

\* PDFAnalyzer._extract_api_endpoints on the same matches
ExtractFromPdf ==
    /\ docpc = "start"
    /\ docEndpoints' = PdfExtractApiEndpoints(docMatches)
    /\ docpc' = "pdf_done"
    /\ UNCHANGED <<docMatches, unique_endpoints, mergeVars, nameVars, parseVars, genVars,
                   batchVars, discoverVars, crawlVars, detectVars, inferVars,
                   frameworkVars, specVars, toolsVars, customVars, sessionVars, httpVars,
                   markdownVars, localVars, cleanupVars>>

DocsNext ==
    \/ CollectFromDocs
    \/ EmitFromDocs
    \/ RaiseFromDocs
    \/ DocsDone
    \/ ExtractFromPdf

SpecDocs == DocsInit /\ [][DocsNext]_vars

\* C18: an operation whose method word is not an HTTP method is skipped on its
\* own: once the documentation extractor has returned, every accepted match
\* whose method is one of GET, POST, PUT, DELETE, PATCH has its record
C18_InvalidMethodSkippedAlone ==
    docpc \in {"done", "failed"} =>
        \A i \in 1..Len(docMatches) :
            (DocAccepts(docMatches[i].path) /\ UpperMethod(docMatches[i].method) \in HTTPMethod)
                => \E k \in 1..Len(docEndpoints) :
                      docEndpoints[k] = DocRecord(UpperMethod(docMatches[i].method),
                                                  docMatches[i].path)

\* the path has a segment that is an API marker
HasMarkerSegment(path) ==
    LET segments == SplitNonEmpty(path, 1, <<>>)
    IN  \E k \in 1..Len(segments) : Lower(segments[k]) \in ApiWords

\* C20: an endpoint is emitted from a text only if its path contains an
\* API-like marker segment; a match whose path has none is never emitted
C20_EmittedPathsHaveMarker ==
    \A k \in 1..Len(docEndpoints) : HasMarkerSegment(docEndpoints[k].url)

------------------------------------------------------------------------------
(* The server's tool list: MCPServer._generate_endpoint_tools, get_tool_schema *)

MaxTools == 2

\* a dict of parameter infos as a value: its entries in insertion order
SrvParamInfos == [name : {NameA}, required : BOOLEAN]
SrvDicts == {<<>>} \cup {<<p>> : p \in SrvParamInfos}

\* an Optional[Dict] field of a record: None, or a dict
NoDict == [none |-> TRUE, items |-> <<>>]
SomeDict(d) == [none |-> FALSE, items |-> d]
OptionalDicts == {NoDict} \cup {SomeDict(d) : d \in SrvDicts}

SrvUrls == {<<"/", "u">>, <<"/", "u", "/", "1">>, <<"/", "a", "/", "1">>}

\* an endpoint record as emitted: parameters, and the 'properties' of its
\* request_body (None when the record has no request_body)
EmittedEndpoints ==
    [url : SrvUrls, method : {"GET", "POST"},
     parameters : OptionalDicts,
     request_body : {NoDict, SomeDict(<<[name |-> NameB, required |-> FALSE]>>)}]

\* the references of the dict objects: 0 is None
ParamRef(i) == 2 * i - 1
BodyRef(i) == 2 * i
FreshRef(i) == 2 * MaxTools + i
Refs == 1..(3 * MaxTools)

\* the record of endpoint i, its dicts held by reference
EndpointObject(e, i) ==
    [url |-> e.url, method |-> e.method,
     parameters |-> IF e.parameters.none THEN 0 ELSE ParamRef(i),
     request_body |-> IF e.request_body.none THEN 0 ELSE BodyRef(i)]

\* the dict objects of the records
InitialHeap(emitted) ==
    [r \in Refs |->
        IF \E i \in 1..Len(emitted) : r = ParamRef(i) THEN emitted[(r + 1) \div 2].parameters.items
        ELSE IF \E i \in 1..Len(emitted) : r = BodyRef(i) THEN emitted[r \div 2].request_body.items
        ELSE <<>>]

\* [name for name, param in endpoint.parameters.items() if param.get('required', False)]
RECURSIVE RequiredNames(_, _)
RequiredNames(d, k) ==
    IF k > Len(d) THEN <<>>
    ELSE (IF d[k].required THEN <<d[k].name>> ELSE <<>>) \o RequiredNames(d, k + 1)

\* MCPServer._generate_tool_parameters for endpoint i: 'properties' is the
\* endpoint's own dict object, or a new empty dict
GenerateToolParameters(ep, i, heap) ==
    IF ep.parameters # 0 /\ heap[ep.parameters] # <<>>
    THEN [properties |-> ep.parameters, required |-> RequiredNames(heap[ep.parameters], 1)]
    ELSE IF ep.request_body # 0
    THEN [properties |-> ep.request_body, required |-> <<>>]
    ELSE [properties |-> FreshRef(i), required |-> <<>>]

\* MCPTool(name=..., parameters=..., endpoint_url=..., method=...): the model
\* validates the outer dict and keeps the objects it holds
McpTool(ep, i, heap) ==
    [name |-> GenerateToolName(ep.url, ep.method),
     parameters |-> GenerateToolParameters(ep, i, heap),
     endpoint_url |-> ep.url,
     method |-> ep.method]

ToolsInit ==
    /\ srvEmitted \in SeqsUpTo(EmittedEndpoints, MaxTools)
    /\ srvEndpoints = [i \in 1..Len(srvEmitted) |-> EndpointObject(srvEmitted[i], i)]
    /\ srvHeap = InitialHeap(srvEmitted)
    /\ mcpTools = <<>>
    /\ tool_schemas = <<>>
    /\ srvpc = "emitted"
    /\ MergeIdle
    /\ NameIdle
    /\ ParseIdle
    /\ GenIdle
    /\ BatchIdle
    /\ DiscoverIdle
    /\ CrawlIdle
    /\ DetectIdle
    /\ InferIdle
    /\ FrameworkIdle
    /\ SpecFilesIdle
    /\ DocsIdle
    /\ CustomIdle
    /\ SessionsIdle
    /\ HttpIdle
    /\ MarkdownIdle
    /\ LocalIdle
    /\ CleanupIdle

\* MCPServer._generate_endpoint_tools
GenerateEndpointTools ==
    /\ srvpc = "emitted"
    /\ mcpTools' = [i \in 1..Len(srvEndpoints) |-> McpTool(srvEndpoints[i], i, srvHeap)]
    /\ srvpc' = "tools"
    /\ UNCHANGED <<srvEmitted, srvEndpoints, srvHeap, tool_schemas, mergeVars, nameVars,
                   parseVars, genVars, batchVars, discoverVars, crawlVars, detectVars,
                   inferVars, frameworkVars, specVars, docVars, customVars, sessionVars,
                   httpVars, markdownVars, localVars, cleanupVars>>

\* tool_schemas[tool.name] = {...} for each tool, on a dict
RECURSIVE SchemaLoop(_, _, _)
SchemaLoop(tools, i, acc) ==
    IF i > Len(tools) THEN acc
    ELSE SchemaLoop(tools, i + 1,
             DictSet(acc, [name |-> tools[i].name, inputSchema |-> tools[i].parameters]))

\* MCPServer.get_tool_schema
GetToolSchema ==
    /\ srvpc = "tools"
    /\ tool_schemas' = SchemaLoop(mcpTools, 1, <<>>)
    /\ srvpc' = "schema"
    /\ UNCHANGED <<srvEmitted, srvEndpoints, srvHeap, mcpTools, mergeVars, nameVars,
                   parseVars, genVars, batchVars, discoverVars, crawlVars, detectVars,
                   inferVars, frameworkVars, specVars, docVars, customVars, sessionVars,
                   httpVars, markdownVars, localVars, cleanupVars>>

NewProperty == [name |-> NameX, required |-> FALSE]

\* a holder of a tool writes tool.parameters['properties'][name] = info
ChangeToolProperties ==
    /\ srvpc \in {"tools", "schema"}
    /\ \E t \in 1..Len(mcpTools) :
          LET ref == mcpTools[t].parameters.properties
          IN  /\ ~ DictHas(srvHeap[ref], NameX)
              /\ srvHeap' = [srvHeap EXCEPT ![ref] = DictSet(@, NewProperty)]
    /\ UNCHANGED <<srvEmitted, srvEndpoints, mcpTools, tool_schemas, srvpc, mergeVars,
                   nameVars, parseVars, genVars, batchVars, discoverVars, crawlVars,
                   detectVars, inferVars, frameworkVars, specVars, docVars, customVars,
                   sessionVars, httpVars, markdownVars, localVars, cleanupVars>>

\* a holder of a record writes endpoint.parameters[name] = info
ChangeEndpointParameters ==
    /\ srvpc \in {"tools", "schema"}
    /\ \E i \in 1..Len(srvEndpoints) :
          LET ref == srvEndpoints[i].parameters
          IN  /\ ref # 0
              /\ ~ DictHas(srvHeap[ref], NameX)
              /\ srvHeap' = [srvHeap EXCEPT ![ref] = DictSet(@, NewProperty)]
    /\ UNCHANGED <<srvEmitted, srvEndpoints, mcpTools, tool_schemas, srvpc, mergeVars,
                   nameVars, parseVars, genVars, batchVars, discoverVars, crawlVars,
                   detectVars, inferVars, frameworkVars, specVars, docVars, customVars,
                   sessionVars, httpVars, markdownVars, localVars, cleanupVars>>

ToolsNext ==
    \/ GenerateEndpointTools
    \/ GetToolSchema
    \/ ChangeToolProperties
    \/ ChangeEndpointParameters

SpecTools == ToolsInit /\ [][ToolsNext]_vars

\* the content of the records: each Optional[Dict] field by value
DictValue(ref) == IF ref = 0 THEN NoDict ELSE SomeDict(srvHeap[ref])

RecordValues ==
    [i \in 1..Len(srvEndpoints) |->
        [url |-> srvEndpoints[i].url, method |-> srvEndpoints[i].method,
         parameters |-> DictValue(srvEndpoints[i].parameters),
         request_body |-> DictValue(srvEndpoints[i].request_body)]]

\* the content of the tools: 'properties' by value
ToolValues ==
    [t \in 1..Len(mcpTools) |->
        [name |-> mcpTools[t].name,
         properties |-> srvHeap[mcpTools[t].parameters.properties],
         required |-> mcpTools[t].parameters.required]]

\* C21: endpoint records are never changed after they are emitted and a tool
\* shares no mutable data with its record: tool generation leaves every
\* record as it is, a change of a tool changes no record, and a change of a
\* record changes no tool.
C21_RecordsAndToolsSeparate ==
    [][/\ GenerateEndpointTools => RecordValues' = RecordValues
       /\ ChangeToolProperties => RecordValues' = RecordValues
       /\ ChangeEndpointParameters => ToolValues' = ToolValues]_vars

DistinctMethodPath(eps) ==
    \A i, j \in 1..Len(eps) : (eps[i].method = eps[j].method /\ eps[i].url = eps[j].url) => i = j

\* C24: endpoints with distinct (method, path) get distinct tool names: the
\* tool list holds one tool per endpoint under a name of its own, and the
\* schema keyed by name holds one entry per endpoint.
C24_OneToolPerEndpoint ==
    (srvpc = "schema" /\ DistinctMethodPath(srvEndpoints)) =>
        /\ Len(mcpTools) = Len(srvEndpoints)
        /\ \A s, t \in 1..Len(mcpTools) : mcpTools[s].name = mcpTools[t].name => s = t
        /\ Len(tool_schemas) = Len(srvEndpoints)

------------------------------------------------------------------------------
(* A custom JSON document: JSONAnalyzer.analyze_json with _parse_custom_endpoints *)

MaxItems == 2

NameQty == <<"q", "t", "y">>
PathOrders == <<"o", "r", "d", "e", "r", "s">>

\* the "parameters" dict of an item: empty, or one parameter
CustomParamDicts ==
    {<<>>,
     <<[name |-> NameQty, in |-> "body", required |-> "true", type |-> Absent]>>,
     <<[name |-> NameQty, in |-> Absent, required |-> Absent, type |-> Absent]>>}

\* an item of the list: its "method" and "path" values, each possibly absent
CustomItems ==
    [method : {"post", "GET", "dialog", Absent},
     path : {PathOrders, <<"/">> \o PathOrders},
     hasPath : BOOLEAN,
     parameters : CustomParamDicts]

\* documents {"<key>": [items]}
CustomDocs == [key : {KeyEndpoints, KeyRoutes}, items : SeqsUpTo(CustomItems, MaxItems)]

\* the document as the detection rules see it
DocShape(doc) ==
    [t |-> "object", openapi |-> JAbsent, swagger |-> JAbsent, info |-> JAbsent,
     item |-> JAbsent, resources |-> JAbsent,
     endpoints |-> IF doc.key = KeyEndpoints THEN JList(<<>>) ELSE JAbsent,
     routes |-> IF doc.key = KeyRoutes THEN JList(<<>>) ELSE JAbsent]

\* the loop of _parse_custom_endpoints over the items
RECURSIVE ParseCustomItems(_, _)
ParseCustomItems(items, i) ==
    IF i > Len(items) THEN <<>>
    ELSE LET item == items[i]
             method_str == UpperMethod(OrDefault(item.method, "GET"))
             url_path == EnsureLeadingSlash(IF item.hasPath THEN item.path ELSE <<"/">>)
         IN  (IF method_str \notin HTTPMethod THEN <<>>
              ELSE <<[url |-> url_path, method |-> method_str,
                      parameters |-> ExtractCustomParameters(item.parameters)]>>)
             \o ParseCustomItems(items, i + 1)

\* JSONAnalyzer._parse_custom_endpoints
ParseCustomEndpoints(doc) == ParseCustomItems(doc.items, 1)

CustomInit ==
    /\ customDoc \in CustomDocs
    /\ customFormat = "none"
    /\ customRecords = <<>>
    /\ MergeIdle
    /\ NameIdle
    /\ ParseIdle
    /\ GenIdle
    /\ BatchIdle
    /\ DiscoverIdle
    /\ CrawlIdle
    /\ DetectIdle
    /\ InferIdle
    /\ FrameworkIdle
    /\ SpecFilesIdle
    /\ DocsIdle
    /\ ToolsIdle
    /\ SessionsIdle
    /\ HttpIdle
    /\ MarkdownIdle
    /\ LocalIdle
    /\ CleanupIdle

\* JSONAnalyzer.analyze_json on the document
AnalyzeJson ==
    /\ customFormat = "none"
    /\ customFormat' = DetectJsonFormat(DocShape(customDoc))
    /\ customRecords' = IF customFormat' = "custom_endpoints"
                        THEN ParseCustomEndpoints(customDoc)
                        ELSE <<>>
    /\ UNCHANGED <<customDoc, mergeVars, nameVars, parseVars, genVars, batchVars,
                   discoverVars, crawlVars, detectVars, inferVars, frameworkVars,
                   specVars, docVars, toolsVars, sessionVars, httpVars, markdownVars,
                   localVars, cleanupVars>>

CustomNext == AnalyzeJson

SpecCustom == CustomInit /\ [][CustomNext]_vars

\* {"routes":[{"method":"post","path":"orders",
\*             "parameters":{"qty":{"in":"body","required":true}}}]}
OrdersDocument ==
    [key |-> KeyRoutes,
     items |-> <<[method |-> "post", path |-> PathOrders, hasPath |-> TRUE,
                  parameters |-> <<[name |-> NameQty, in |-> "body", required |-> "true",
                                    type |-> Absent]>>]>>]

\* C23: parsing the orders document yields exactly one record: path "/orders"
\* with the leading slash added, method POST, and a parameter qty with source
\* body and required true.
C23_OrdersDocumentParsed ==
    (customDoc = OrdersDocument /\ customFormat # "none") =>
        /\ customFormat = "custom_endpoints"
        /\ Len(customRecords) = 1
        /\ customRecords[1].url = <<"/">> \o PathOrders
        /\ customRecords[1].method = "POST"
        /\ Len(customRecords[1].parameters) = 1
        /\ customRecords[1].parameters[1].name = NameQty
        /\ customRecords[1].parameters[1].source = "body"
        /\ customRecords[1].parameters[1].required = TRUE

C23_Witness ==
    /\ customDoc = OrdersDocument
    /\ customFormat = "custom_endpoints"
    /\ Len(customRecords) = 1

------------------------------------------------------------------------------
(* The session store: Database *)

MaxSessions == 2
MaxChat == 1

\* str(uuid.uuid4())
SessionIds == 1..MaxSessions

\* datetime values; a microsecond of 0 is a whole second
Datetimes == [second : {1}, microsecond : {0, 7}]

\* str(dt) without the fraction
DatetimeStrSeconds(dt) == <<dt.second>>

\* json.dump(..., default=str) on a datetime: str(dt) leaves the fraction out
\* when the microsecond is 0
DatetimeStr(dt) ==
    IF dt.microsecond = 0 THEN <<dt.second>> ELSE <<dt.second, dt.microsecond>>

\* the datetime a field of type datetime is validated to from such a text
ParseDatetime(text) ==
    [second |-> text[1], microsecond |-> IF Len(text) = 1 THEN 0 ELSE text[2]]

ToolLists == {<<>>, <<"tool">>}
ChatMessage(content) == [role |-> "user", content |-> content]

\* session.model_dump() written by json.dump
DumpSession(s) ==
    [session_id |-> s.session_id, mcp_tools |-> s.mcp_tools,
     chat_history |-> s.chat_history,
     created_at |-> DatetimeStr(s.created_at),
     updated_at |-> DatetimeStr(s.updated_at)]

\* UserSession(**session_data)
LoadSession(d) ==
    [session_id |-> d.session_id, mcp_tools |-> d.mcp_tools,
     chat_history |-> d.chat_history,
     created_at |-> ParseDatetime(d.created_at),
     updated_at |-> ParseDatetime(d.updated_at)]

\* Database._save_sessions: the file is rewritten with every session
SaveSessions(held) == [exists |-> TRUE, data |-> {DumpSession(s) : s \in held}, idle |-> FALSE]

\* Database._load_sessions
LoadSessions(file) == IF file.exists THEN {LoadSession(d) : d \in file.data} ELSE {}

HeldIds == {s.session_id : s \in sessions}
Held(session_id) == CHOOSE s \in sessions : s.session_id = session_id

\* Database() on a data directory without a sessions file, or with the file an
\* earlier Database left there
SessionsInit ==
    /\ \E earlier \in SUBSET {[session_id |-> 1, mcp_tools |-> <<>>, chat_history |-> <<>>,
                               created_at |-> dt, updated_at |-> dt] : dt \in Datetimes} :
          /\ Cardinality(earlier) <= 1
          /\ \E exists \in BOOLEAN :
                /\ (earlier # {}) => exists
                /\ sessionsFile = IF exists THEN SaveSessions(earlier)
                                  ELSE [exists |-> FALSE, data |-> {}, idle |-> FALSE]
          /\ sessions = LoadSessions(sessionsFile)
    /\ MergeIdle
    /\ NameIdle
    /\ ParseIdle
    /\ GenIdle
    /\ BatchIdle
    /\ DiscoverIdle
    /\ CrawlIdle
    /\ DetectIdle
    /\ InferIdle
    /\ FrameworkIdle
    /\ SpecFilesIdle
    /\ DocsIdle
    /\ ToolsIdle
    /\ CustomIdle
    /\ HttpIdle
    /\ MarkdownIdle
    /\ LocalIdle
    /\ CleanupIdle

\* Database.create_session: created_at and updated_at are the defaults of the
\* UserSession fields
CreateSession ==
    /\ \E session_id \in SessionIds \ HeldIds, default \in Datetimes :
          sessions' = sessions \cup
              {[session_id |-> session_id, mcp_tools |-> <<>>, chat_history |-> <<>>,
                created_at |-> default, updated_at |-> default]}
    /\ sessionsFile' = SaveSessions(sessions')
    /\ UNCHANGED <<mergeVars, nameVars, parseVars, genVars, batchVars, discoverVars,
                   crawlVars, detectVars, inferVars, frameworkVars, specVars, docVars,
                   toolsVars, customVars, httpVars, markdownVars, localVars, cleanupVars>>

\* Database.update_session_mcp_tools
UpdateSessionMcpTools ==
    /\ \E session_id \in SessionIds, mcp_tools \in ToolLists, now \in Datetimes :
          IF session_id \in HeldIds
          THEN /\ sessions' = (sessions \ {Held(session_id)}) \cup
                      {[Held(session_id) EXCEPT !.mcp_tools = mcp_tools, !.updated_at = now]}
               /\ sessionsFile' = SaveSessions(sessions')
          ELSE UNCHANGED <<sessions, sessionsFile>>
    /\ UNCHANGED <<mergeVars, nameVars, parseVars, genVars, batchVars, discoverVars,
                   crawlVars, detectVars, inferVars, frameworkVars, specVars, docVars,
                   toolsVars, customVars, httpVars, markdownVars, localVars, cleanupVars>>

\* Database.add_chat_message
AddChatMessage ==
    /\ \E session_id \in SessionIds, now \in Datetimes :
          IF session_id \in HeldIds /\ Len(Held(session_id).chat_history) < MaxChat
          THEN /\ sessions' = (sessions \ {Held(session_id)}) \cup
                      {[Held(session_id) EXCEPT
                          !.chat_history = Append(@, ChatMessage("hi")),
                          !.updated_at = now]}
               /\ sessionsFile' = SaveSessions(sessions')
          ELSE UNCHANGED <<sessions, sessionsFile>>
    /\ UNCHANGED <<mergeVars, nameVars, parseVars, genVars, batchVars, discoverVars,
                   crawlVars, detectVars, inferVars, frameworkVars, specVars, docVars,
                   toolsVars, customVars, httpVars, markdownVars, localVars, cleanupVars>>

\* Database.delete_session
DeleteSession ==
    /\ \E session_id \in SessionIds :
          IF session_id \in HeldIds
          THEN /\ sessions' = sessions \ {Held(session_id)}
               /\ sessionsFile' = SaveSessions(sessions')
          ELSE UNCHANGED <<sessions, sessionsFile>>
    /\ UNCHANGED <<mergeVars, nameVars, parseVars, genVars, batchVars, discoverVars,
                   crawlVars, detectVars, inferVars, frameworkVars, specVars, docVars,
                   toolsVars, customVars, httpVars, markdownVars, localVars, cleanupVars>>

SessionsNext ==
    \/ CreateSession
    \/ UpdateSessionMcpTools
    \/ AddChatMessage
    \/ DeleteSession

SpecSessions == SessionsInit /\ [][SessionsNext]_vars

------------------------------------------------------------------------------
(* The HTTP handlers on a session: generate_mcp_tools,
   generate_mcp_server_for_session *)

MaxHttpSessions == 2

HttpSessionIds == 1..MaxHttpSessions

\* body.get('session_id'): None when the key is missing, 0 standing for ""
HttpBodies == [has_session_id : BOOLEAN, session_id : {0} \cup HttpSessionIds]

\* what a handler looks at in a session
HttpSessions == [session_id : HttpSessionIds, github : BOOLEAN, has_endpoints : BOOLEAN]

\* `not session_id`
NoSessionId(body) == ~body.has_session_id \/ body.session_id = 0

\* database.get_session(session_id) finds a session
HttpFound(body, known) == \E s \in known : s.session_id = body.session_id

HttpSession(body, known) == CHOOSE s \in known : s.session_id = body.session_id

\* the HTTPException the body of generate_mcp_tools raises, 200 when it
\* returns, or 0 for another exception
ToolsBodyOutcome(body, known, fails) ==
    IF NoSessionId(body) THEN 400
    ELSE IF ~HttpFound(body, known) THEN 404
    ELSE IF fails THEN 0
    ELSE 200

\* generate_mcp_tools: `except Exception` also catches the HTTPException raised
\* in the body and answers with HTTPException(status_code=500)
GenerateMcpToolsStatus(body, known, fails) ==
    IF ToolsBodyOutcome(body, known, fails) = 200 THEN 200 ELSE 500

\* generate_mcp_server_for_session: `except HTTPException: raise` comes first
GenerateMcpServerStatus(body, known, fails) ==
    IF NoSessionId(body) THEN 400
    ELSE IF ~HttpFound(body, known) THEN 404
    ELSE IF ~HttpSession(body, known).github THEN 400
    ELSE IF ~HttpSession(body, known).has_endpoints THEN 400
    ELSE IF fails THEN 500
    ELSE 200

HttpInit ==
    /\ httpBody \in HttpBodies
    /\ httpKnown \in {k \in SUBSET HttpSessions :
                         \A s, t \in k : s.session_id = t.session_id => s = t}
    /\ httpGenerationFails \in BOOLEAN
    /\ httpRoute = "none"
    /\ httpStatus = 0
    /\ MergeIdle
    /\ NameIdle
    /\ ParseIdle
    /\ GenIdle
    /\ BatchIdle
    /\ DiscoverIdle
    /\ CrawlIdle
    /\ DetectIdle
    /\ InferIdle
    /\ FrameworkIdle
    /\ SpecFilesIdle
    /\ DocsIdle
    /\ ToolsIdle
    /\ CustomIdle
    /\ SessionsIdle
    /\ MarkdownIdle
    /\ LocalIdle
    /\ CleanupIdle

\* POST /generate-mcp-tools
GenerateMcpTools ==
    /\ httpRoute = "none"
    /\ httpRoute' = "/generate-mcp-tools"
    /\ httpStatus' = GenerateMcpToolsStatus(httpBody, httpKnown, httpGenerationFails)
    /\ UNCHANGED <<httpBody, httpKnown, httpGenerationFails, mergeVars, nameVars, parseVars,
                   genVars, batchVars, discoverVars, crawlVars, detectVars, inferVars,
                   frameworkVars, specVars, docVars, toolsVars, customVars, sessionVars,
                   markdownVars, localVars, cleanupVars>>

\* POST /generate-mcp-server
GenerateMcpServerForSession ==
    /\ httpRoute = "none"
    /\ httpRoute' = "/generate-mcp-server"
    /\ httpStatus' = GenerateMcpServerStatus(httpBody, httpKnown, httpGenerationFails)
    /\ UNCHANGED <<httpBody, httpKnown, httpGenerationFails, mergeVars, nameVars, parseVars,
                   genVars, batchVars, discoverVars, crawlVars, detectVars, inferVars,
                   frameworkVars, specVars, docVars, toolsVars, customVars, sessionVars,
                   markdownVars, localVars, cleanupVars>>

HttpNext == GenerateMcpTools \/ GenerateMcpServerForSession

SpecHttp == HttpInit /\ [][HttpNext]_vars

\* C26: POST /generate-mcp-tools answers 400 when the request has no
\* session_id and 404 when the session id is unknown; it answers 500 only when
\* the generation itself fails.
C26_ToolsRouteStatus ==
    httpRoute = "/generate-mcp-tools" =>
        /\ NoSessionId(httpBody) => httpStatus = 400
        /\ (~NoSessionId(httpBody) /\ ~HttpFound(httpBody, httpKnown)) => httpStatus = 404
        /\ httpStatus = 500 =>
              (~NoSessionId(httpBody) /\ HttpFound(httpBody, httpKnown) /\ httpGenerationFails)

------------------------------------------------------------------------------
(* Endpoints of a Markdown document: MarkdownAPIParser.parse_endpoints *)

MaxLines == 3

AsciiLower == <<"a", "b", "c", "d", "e", "f", "g", "h", "i", "j", "k", "l", "m",
                "n", "o", "p", "q", "r", "s", "t", "u", "v", "w", "x", "y", "z">>
AsciiUpper == <<"A", "B", "C", "D", "E", "F", "G", "H", "I", "J", "K", "L", "M",
                "N", "O", "P", "Q", "R", "S", "T", "U", "V", "W", "X", "Y", "Z">>

UpperChar(c) ==
    IF \E i \in 1..26 : AsciiLower[i] = c
    THEN AsciiUpper[CHOOSE i \in 1..26 : AsciiLower[i] = c]
    ELSE c

\* str.upper()
Upper(s) == [i \in 1..Len(s) |-> UpperChar(s[i])]

\* str.strip() for the blank the lines can hold
RECURSIVE Strip(_)
Strip(s) ==
    IF s = <<>> THEN s
    ELSE IF s[1] = " " THEN Strip(Tail(s))
    ELSE IF s[Len(s)] = " " THEN Strip(SubSeq(s, 1, Len(s) - 1))
    ELSE s

\* the lines a document is made of
LineGetU == <<"#", "#", " ", "G", "E", "T", " ", "/", "u">>
LinePostU == <<"#", "#", " ", "P", "O", "S", "T", " ", "/", "u">>
LineGetting == <<"#", "#", " ", "G", "e", "t", "t", "i", "n", "g">>
LineIntro == <<"#", "#", " ", "I", "n", "t", "r", "o">>
LineParam == <<"-", " ", "*", "*", "i", "d", ":", "*", "*", " ", "r">>
LineText == <<"o", "k">>

MdLineSet == {LineGetU, LinePostU, LineGetting, LineIntro, LineParam, LineText}

\* ['GET', 'POST', 'PUT', 'DELETE', 'PATCH']
MdMethods ==
    <<<<"G", "E", "T">>, <<"P", "O", "S", "T">>, <<"P", "U", "T">>,
      <<"D", "E", "L", "E", "T", "E">>, <<"P", "A", "T", "C", "H">>>>

\* any(method in line.upper() for method in [...])
AnyMethodIn(line) == \E k \in 1..Len(MdMethods) : Contains(Upper(line), MdMethods[k])

\* the first position from i on that holds no blank, Len(s) + 1 if none
RECURSIVE SkipBlanks(_, _)
SkipBlanks(s, i) == IF i <= Len(s) /\ s[i] = " " THEN SkipBlanks(s, i + 1) ELSE i

\* the first position from i on that holds a blank, Len(s) + 1 if none
RECURSIVE SkipNonBlanks(_, _)
SkipNonBlanks(s, i) == IF i <= Len(s) /\ s[i] # " " THEN SkipNonBlanks(s, i + 1) ELSE i

\* (GET|POST|PUT|DELETE|PATCH)\s+([^\s]+) with re.IGNORECASE, tried at position i:
\* the method word k matches there, blanks follow, and a non-blank follows them
MethodMatchesAt(line, i, k) ==
    LET word == MdMethods[k]
        after == i + Len(word)
    IN  /\ after <= Len(line)
        /\ Upper(SubSeq(line, i, after - 1)) = word
        /\ line[after] = " "
        /\ SkipBlanks(line, after) <= Len(line)

NoMatch == [matched |-> FALSE]

\* re.search: the leftmost position where the pattern matches
MethodMatch(line) ==
    LET hits == {i \in 1..Len(line) : \E k \in 1..Len(MdMethods) : MethodMatchesAt(line, i, k)}
    IN  IF hits = {} THEN NoMatch
        ELSE LET i == CHOOSE h \in hits : \A g \in hits : h <= g
                 k == CHOOSE c \in 1..Len(MdMethods) : MethodMatchesAt(line, i, c)
                 from == SkipBlanks(line, i + Len(MdMethods[k]))
             IN  [matched |-> TRUE,
                  method |-> Upper(SubSeq(line, i, i + Len(MdMethods[k]) - 1)),
                  path |-> SubSeq(line, from, SkipNonBlanks(line, from) - 1)]

\* - \*\*([^:]+):\*\*\s*(.+) searched in a line that starts with '- **'
ParamMatch(line) ==
    LET colons == {i \in 6..Len(line) : line[i] = ":"}
    IN  IF colons = {} THEN NoMatch
        ELSE LET c == CHOOSE h \in colons : \A g \in colons : h <= g
                 from == SkipBlanks(line, c + 3)
             IN  IF /\ c + 2 <= Len(line)
                    /\ SubSeq(line, c + 1, c + 2) = <<"*", "*">>
                    /\ from <= Len(line)
                 THEN [matched |-> TRUE,
                       name |-> Strip(SubSeq(line, 5, c - 1)),
                       description |-> Strip(SubSeq(line, from, Len(line)))]
                 ELSE NoMatch

WordRequired == <<"r", "e", "q", "u", "i", "r", "e", "d">>

\* the dict appended to current_parameters
MdParameter(m) ==
    [name |-> m.name,
     description |-> m.description,
     required |-> Contains(Lower(m.description), WordRequired)]

\* APIEndpoint(url=path, method=HTTPMethod(method), description=..., parameters={})
MdEndpoint(line, m) ==
    LET path == IF StartsWith(m.path, <<"/">>) THEN m.path ELSE <<"/">> \o m.path
    IN  [none |-> FALSE,
         url |-> path,
         method |-> m.method,
         description |->
             Strip(ReplaceAll(line, <<"#", "#", " ">> \o m.method \o <<" ">> \o m.path, <<>>)),
         parameters |-> <<>>]

\* the record as it is appended: current_endpoint.parameters = current_parameters
\* when the list is not empty
WithParameters(endpoint, parameters) ==
    IF parameters # <<>> THEN [endpoint EXCEPT !.parameters = parameters] ELSE endpoint

MarkdownInit ==
    /\ mdLines \in SeqsUpTo(MdLineSet, MaxLines)
    /\ mdPos = 0
    /\ current_endpoint = NoEndpoint
    /\ current_parameters = <<>>
    /\ mdEndpoints = <<>>
    /\ mdpc = "loop"
    /\ MergeIdle
    /\ NameIdle
    /\ ParseIdle
    /\ GenIdle
    /\ BatchIdle
    /\ DiscoverIdle
    /\ CrawlIdle
    /\ DetectIdle
    /\ InferIdle
    /\ FrameworkIdle
    /\ SpecFilesIdle
    /\ DocsIdle
    /\ ToolsIdle
    /\ CustomIdle
    /\ SessionsIdle
    /\ HttpIdle
    /\ LocalIdle
    /\ CleanupIdle

\* one turn of the loop over the lines. The request-body and response branches
\* need a fenced json block after the line; the lines here hold none, and those
\* branches change no list.
ParseLine ==
    /\ mdpc = "loop"
    /\ mdPos < Len(mdLines)
    /\ LET line == mdLines[mdPos + 1]
           isHeader == StartsWith(line, <<"#", "#", " ">>) /\ AnyMethodIn(line)
           m == MethodMatch(line)
       IN  /\ mdPos' = mdPos + 1
           /\ IF isHeader
              THEN /\ mdEndpoints' =
                         IF current_endpoint # NoEndpoint
                         THEN Append(mdEndpoints,
                                     WithParameters(current_endpoint, current_parameters))
                         ELSE mdEndpoints
                   /\ IF m.matched
                      THEN /\ current_endpoint' = MdEndpoint(line, m)
                           /\ current_parameters' = <<>>
                      ELSE UNCHANGED <<current_endpoint, current_parameters>>
              ELSE /\ UNCHANGED <<mdEndpoints, current_endpoint>>
                   /\ IF /\ current_endpoint # NoEndpoint
                         /\ StartsWith(Strip(line), <<"-", " ", "*", "*">>)
                         /\ ParamMatch(line).matched
                      THEN current_parameters' =
                               Append(current_parameters, MdParameter(ParamMatch(line)))
                      ELSE UNCHANGED current_parameters
    /\ mdpc' = IF mdPos + 1 = Len(mdLines) THEN "last" ELSE "loop"
    /\ UNCHANGED <<mdLines, mergeVars, nameVars, parseVars, genVars, batchVars, discoverVars,
                   crawlVars, detectVars, inferVars, frameworkVars, specVars, docVars,
                   toolsVars, customVars, sessionVars, httpVars, localVars, cleanupVars>>

\* after the loop: the last endpoint is added and the list returned
AddLastEndpoint ==
    /\ mdpc = "last" \/ (mdpc = "loop" /\ mdPos = Len(mdLines))
    /\ mdEndpoints' =
          IF current_endpoint # NoEndpoint
          THEN Append(mdEndpoints, WithParameters(current_endpoint, current_parameters))
          ELSE mdEndpoints
    /\ mdpc' = "done"
    /\ UNCHANGED <<mdLines, mdPos, current_endpoint, current_parameters, mergeVars, nameVars,
                   parseVars, genVars, batchVars, discoverVars, crawlVars, detectVars,
                   inferVars, frameworkVars, specVars, docVars, toolsVars, customVars,
                   sessionVars, httpVars, localVars, cleanupVars>>

MarkdownNext == ParseLine \/ AddLastEndpoint

SpecMarkdown == MarkdownInit /\ [][MarkdownNext]_vars

\* a '## <METHOD> <path>' heading: the heading mark, a method word, a path
IsEndpointHeading(line) == StartsWith(line, <<"#", "#", " ">>) /\ MethodMatch(line).matched

\* the (method, path) of each such heading, in document order
RECURSIVE HeadingsOf(_, _)
HeadingsOf(lines, i) ==
    IF i > Len(lines) THEN <<>>
    ELSE IF IsEndpointHeading(lines[i])
         THEN <<[method |-> MethodMatch(lines[i]).method, url |-> MethodMatch(lines[i]).path]>>
              \o HeadingsOf(lines, i + 1)
         ELSE HeadingsOf(lines, i + 1)

\* C28: parse_endpoints returns exactly one endpoint for each
\* '## <METHOD> <path>' heading of the text, in document order: none is emitted
\* twice or lost, whatever other heading lines stand between them.
C28_OneEndpointPerHeading ==
    mdpc = "done" =>
        [i \in 1..Len(mdEndpoints) |->
            [method |-> mdEndpoints[i].method, url |-> mdEndpoints[i].url]]
        = HeadingsOf(mdLines, 1)

------------------------------------------------------------------------------
(* The temporary clone directory: GitHubAnalyzer._analyze_repository_locally *)
(* and _cleanup_temp_directory *)

max_retries == 3

\* what one removal can end in: shutil.rmtree, or on Windows
\* _cleanup_windows_directory, whose on_error handler swallows what it meets
\* below the directory but whose last rmtree can still raise
RemovalOutcomes == {"removed", "PermissionError", "OSError", "Exception"}

\* the except clauses of _cleanup_temp_directory, in their order
CleanupHandlerOSErrorOnly(exc) ==
    IF exc = "PermissionError" THEN "retry"
    ELSE IF exc \in {"PermissionError", "OSError"} THEN "retry"
    ELSE "propagate"

CleanupHandler(exc) ==
    IF exc = "PermissionError" THEN "retry"
    ELSE IF exc \in {"PermissionError", "OSError"} THEN "retry"
    ELSE IF exc \in {"PermissionError", "OSError", "Exception"} THEN "break"
    ELSE "propagate"

LocalInit ==
    /\ os_name \in {"nt", "posix"}
    /\ temp_dir = "None"
    /\ exitPath = "none"
    /\ localResult = "none"
    /\ localRaised = FALSE
    /\ removals = <<>>
    /\ sleeps = <<>>
    /\ retry_delay = 0
    /\ lpc = "start"
    /\ MergeIdle
    /\ NameIdle
    /\ ParseIdle
    /\ GenIdle
    /\ BatchIdle
    /\ DiscoverIdle
    /\ CrawlIdle
    /\ DetectIdle
    /\ InferIdle
    /\ FrameworkIdle
    /\ SpecFilesIdle
    /\ DocsIdle
    /\ ToolsIdle
    /\ CustomIdle
    /\ SessionsIdle
    /\ HttpIdle
    /\ MarkdownIdle
    /\ CleanupIdle

LocalOthersUnchanged ==
    UNCHANGED <<os_name, mergeVars, nameVars, parseVars, genVars, batchVars, discoverVars, crawlVars,
                detectVars, inferVars, frameworkVars, specVars, docVars, toolsVars,
                customVars, sessionVars, httpVars, markdownVars, cleanupVars>>

\* tempfile.mkdtemp: the directory is made, or the call raises and
\* `except Exception` returns {} with temp_dir still None
MakeTempDir ==
    /\ lpc = "start"
    /\ \E made \in BOOLEAN :
          IF made
          THEN /\ temp_dir' = "exists"
               /\ lpc' = "clone"
               /\ UNCHANGED <<exitPath, localResult>>
          ELSE /\ exitPath' = "mkdtemp_raised"
               /\ localResult' = "empty"
               /\ lpc' = "finally"
               /\ UNCHANGED temp_dir
    /\ UNCHANGED <<localRaised, removals, sleeps, retry_delay>>
    /\ LocalOthersUnchanged

\* await self._clone_repository(...): False returns {}
CloneRepository ==
    /\ lpc = "clone"
    /\ \E clone_result \in BOOLEAN :
          IF clone_result
          THEN /\ lpc' = "analysis"
               /\ UNCHANGED <<exitPath, localResult>>
          ELSE /\ exitPath' = "clone_failed"
               /\ localResult' = "empty"
               /\ lpc' = "finally"
    /\ UNCHANGED <<temp_dir, localRaised, removals, sleeps, retry_delay>>
    /\ LocalOthersUnchanged

\* await self._analyze_repository_filesystem(...): it returns, or raises into
\* `except Exception`
AnalyzeRepositoryFilesystem ==
    /\ lpc = "analysis"
    /\ \E raises \in BOOLEAN :
          IF raises
          THEN /\ exitPath' = "analysis_raised"
               /\ localResult' = "empty"
          ELSE /\ exitPath' = "success"
               /\ localResult' = "analysis"
    /\ lpc' = "finally"
    /\ UNCHANGED <<temp_dir, localRaised, removals, sleeps, retry_delay>>
    /\ LocalOthersUnchanged

\* finally: if temp_dir and os.path.exists(temp_dir), the cleanup starts
Finally ==
    /\ lpc = "finally"
    /\ IF temp_dir = "exists"
       THEN /\ retry_delay' = 1
            /\ lpc' = "remove"
       ELSE /\ lpc' = "returned"
            /\ UNCHANGED retry_delay
    /\ UNCHANGED <<temp_dir, exitPath, localResult, localRaised, removals, sleeps>>
    /\ LocalOthersUnchanged

\* one turn of `for attempt in range(max_retries)` up to its return, its sleep,
\* its break or the end of the loop
RemoveAttempt ==
    /\ lpc = "remove"
    /\ Len(removals) < max_retries
    /\ \E outcome \in RemovalOutcomes :
          LET attempt == Len(removals)
          IN  /\ removals' = Append(removals, outcome)
              /\ IF outcome = "removed"
                 THEN /\ temp_dir' = "removed"
                      /\ lpc' = "returned"
                      /\ UNCHANGED <<sleeps, localRaised>>
                 ELSE /\ UNCHANGED temp_dir
                      /\ IF CleanupHandler(outcome) = "retry"
                         THEN IF attempt < max_retries - 1
                              THEN /\ sleeps' = Append(sleeps, retry_delay)
                                   /\ lpc' = "sleep"
                                   /\ UNCHANGED localRaised
                              ELSE /\ lpc' = "returned"
                                   /\ UNCHANGED <<sleeps, localRaised>>
                         ELSE IF CleanupHandler(outcome) = "break"
                         THEN /\ lpc' = "returned"
                              /\ UNCHANGED <<sleeps, localRaised>>
                         ELSE /\ localRaised' = TRUE
                              /\ lpc' = "returned"
                              /\ UNCHANGED sleeps
    /\ UNCHANGED <<exitPath, localResult, retry_delay>>
    /\ LocalOthersUnchanged

\* the sleep is over: retry_delay *= 2 and the loop goes on
SleepOver ==
    /\ lpc = "sleep"
    /\ retry_delay' = retry_delay * 2
    /\ lpc' = "remove"
    /\ UNCHANGED <<temp_dir, exitPath, localResult, localRaised, removals, sleeps>>
    /\ LocalOthersUnchanged

LocalNext ==
    \/ MakeTempDir
    \/ CloneRepository
    \/ AnalyzeRepositoryFilesystem
    \/ Finally
    \/ RemoveAttempt
    \/ SleepOver

SpecLocal == LocalInit /\ [][LocalNext]_vars

\* C29: once the temporary directory was made, every way out of the analysis
\* (clone failure, analysis exception, success) attempts its removal; there
\* are at most 3 attempts, the sleeps between them last 1 and then 2 seconds,
\* no attempt follows a successful one, and nothing is raised to the caller.
C29_CleanupAttemptedAndBounded ==
    /\ (lpc = "returned" /\ exitPath \in {"clone_failed", "analysis_raised", "success"})
          => /\ Len(removals) >= 1
             /\ Len(sleeps) = Len(removals) - 1
    /\ Len(removals) <= 3
    /\ sleeps = SubSeq(<<1, 2>>, 1, Len(sleeps))
    /\ \A i \in 1..(Len(removals) - 1) : removals[i] # "removed"
    /\ ~localRaised

C29_Witness ==
    /\ lpc = "returned"
    /\ exitPath = "analysis_raised"
    /\ removals = <<"OSError", "PermissionError", "removed">>
    /\ sleeps = <<1, 2>>
    /\ temp_dir = "removed"

------------------------------------------------------------------------------
(* Removal of old sessions: Database.cleanup_old_sessions *)

MaxDays == 2
MaxOldSessions == 2

\* the months of a year that is not a leap year
DaysInMonth(m) ==
    IF m = 2 THEN 28
    ELSE IF m \in {4, 6, 9, 11} THEN 30
    ELSE 31

\* the number of the day in its year, 1 for 1 January
RECURSIVE DaysBefore(_)
DaysBefore(m) == IF m = 1 THEN 0 ELSE DaysBefore(m - 1) + DaysInMonth(m - 1)

Ordinal(d) == DaysBefore(d.month) + d.day

\* datetime < datetime
DatetimeLess(a, b) ==
    \/ Ordinal(a) < Ordinal(b)
    \/ Ordinal(a) = Ordinal(b) /\ a.hour < b.hour

\* the date with the given number in the year
FromOrdinal(n) ==
    LET m == CHOOSE k \in 1..12 : DaysBefore(k) < n /\ n <= DaysBefore(k) + DaysInMonth(k)
    IN  [month |-> m, day |-> n - DaysBefore(m)]

\* the calls: any day of February or March
Nows ==
    {n \in [month : {2, 3}, day : 1..31, hour : {9}] : n.day <= DaysInMonth(n.month)}

\* the creation times around the cutoff of a call at n
CreatedAts(n) ==
    {[month |-> FromOrdinal(o).month, day |-> FromOrdinal(o).day, hour |-> h] :
        o \in (Ordinal(n) - MaxDays - 1)..Ordinal(n), h \in {0, 15}}

OldSessionIds == 1..MaxOldSessions

\* datetime.replace(day=...): the day must exist in the month
ReplaceDay(d, day) ==
    IF day >= 1 /\ day <= DaysInMonth(d.month)
    THEN [ok |-> TRUE, value |-> [d EXCEPT !.day = day]]
    ELSE [ok |-> FALSE]

\* cutoff_date of cleanup_old_sessions
CutoffDate(n, nDays) == ReplaceDay([n EXCEPT !.hour = 0], n.day - nDays)

CleanupInit ==
    /\ today \in Nows
    /\ days \in 0..MaxDays
    /\ \E ids \in SUBSET OldSessionIds : heldSessions \in [ids -> CreatedAts(today)]
    /\ keptSessions = heldSessions
    /\ savedSessions = DOMAIN heldSessions
    /\ cleanupResult = "none"
    /\ MergeIdle
    /\ NameIdle
    /\ ParseIdle
    /\ GenIdle
    /\ BatchIdle
    /\ DiscoverIdle
    /\ CrawlIdle
    /\ DetectIdle
    /\ InferIdle
    /\ FrameworkIdle
    /\ SpecFilesIdle
    /\ DocsIdle
    /\ ToolsIdle
    /\ CustomIdle
    /\ SessionsIdle
    /\ HttpIdle
    /\ MarkdownIdle
    /\ LocalIdle

\* the whole call: the cutoff, the ids to delete, a delete_session for each
CleanupOldSessions ==
    /\ cleanupResult = "none"
    /\ LET cutoff_date == CutoffDate(today, days)
       IN  IF cutoff_date.ok
           THEN LET sessions_to_delete ==
                        {id \in DOMAIN heldSessions :
                            DatetimeLess(heldSessions[id], cutoff_date.value)}
                    kept == DOMAIN heldSessions \ sessions_to_delete
                IN  /\ keptSessions' = [id \in kept |-> heldSessions[id]]
                    /\ savedSessions' = kept
                    /\ cleanupResult' = "done"
           ELSE /\ cleanupResult' = "ValueError"
                /\ UNCHANGED <<keptSessions, savedSessions>>
    /\ UNCHANGED <<today, days, heldSessions, mergeVars, nameVars, parseVars, genVars, batchVars,
                   discoverVars, crawlVars, detectVars, inferVars, frameworkVars, specVars,
                   docVars, toolsVars, customVars, sessionVars, httpVars, markdownVars,
                   localVars>>

CleanupNext == CleanupOldSessions

SpecCleanup == CleanupInit /\ [][CleanupNext]_vars

\* midnight of the day that lies nDays days before the day of n
MidnightDaysBefore(n, nDays) ==
    LET d == FromOrdinal(Ordinal(n) - nDays)
    IN  [month |-> d.month, day |-> d.day, hour |-> 0]

\* C30: cleanup_old_sessions(days) completes without raising, on every date
\* and for every days >= 0, and deletes exactly the sessions created before
\* midnight of the day `days` days before today.
C30_DeletesExactlyTheOld ==
    cleanupResult # "none" =>
        /\ cleanupResult = "done"
        /\ DOMAIN keptSessions =
              {id \in DOMAIN heldSessions :
                  ~DatetimeLess(heldSessions[id], MidnightDaysBefore(today, days))}

====
